---- MODULE Spec2Model ----
(***************************************************************************)
(* A model of the 3x-ui API client: the circuit breaker and the retry      *)
(* layer (utils), the session manager and request executor (XUIClient),    *)
(* and the mass operations of ClientManager.                               *)
(*                                                                         *)
(* Time is counted in abstract ticks.  The two durations of the code, the  *)
(* breaker timeout (60 s) and the session freshness window (1 hour), are   *)
(* kept as small tick counts in the same order (timeout < oneHour).        *)
(***************************************************************************)
EXTENDS Integers, Sequences, FiniteSets, TLC

\* ------------------------------------------------------------------ bounds
NCallers   == 2      \* concurrent callers of one breaker / one client
MaxTime    == 3      \* ticks the clock may advance after construction
MaxRetries == 2      \* largest maxRetries tried for resilientApiCall
NCookies   == 2      \* distinct session cookies the panel hands out
NUsers     == 1      \* callers issuing privileged requests on one XUIClient
MaxTargets == 2      \* most targets of one mass operation
MaxListed  == 2      \* most inbounds in one GET /list answer
MaxClients == 2      \* most clients in the settings of one inbound

\* ------------------------------------------------- constants of the source
threshold  == 5      \* CircuitBreaker threshold (default and XUIClient's)
timeout    == 1      \* CircuitBreaker timeout, in ticks
oneHour    == 2      \* ensureAuthenticated's freshness window, in ticks
StartTime  == 3      \* Date.now() at construction: more than oneHour after 0

Callers == 1..(IF NCallers > NUsers THEN NCallers ELSE NUsers)
Users   == 1..NUsers

VARIABLES
    now,            \* Date.now()
    \* CircuitBreaker
    failures,       \* CircuitBreaker.failures
    nextAttempt,    \* CircuitBreaker.nextAttempt
    cbpc,           \* per caller: "idle" or "running" (fn in flight inside call())
    \* history of the breaker, for the claims
    consec,         \* failed invocations of fn since its last success
    lastFailAt,     \* time of the last failure counted by the breaker
    overlap,        \* two calls have been inside call() at the same time
    lastCall,       \* the admission decision of the most recent call()
    probing,        \* per caller: its call was admitted after an elapsed timeout
    lastDone,       \* how the most recent invocation of fn ended
    \* resilientApiCall, per caller
    rMax,           \* maxRetries (XUIClient.retryAttempts)
    rpc,            \* "idle", "ready" (loop body), "call" (fn in flight), "delay",
                    \* "returned", "raised"
    attempt,        \* the loop variable
    lastError,      \* the error caught last
    raised,         \* the error the call raised
    \* history of the call, for the claims
    invocations,    \* how many times fn was invoked
    nFail,          \* how many invocations of fn failed
    nTransient,     \* how many of them failed with a retryable error
    \* XUIClient: the session
    isAuthenticated,
    sessionCookie,  \* 0 stands for null
    lastLoginTime,
    \* XUIClient.request, per caller
    call,           \* where makeHttpRequest is, and the Cookie headers it sent
    hist,           \* history of the call, for the claims
    \* ClientManager: the mass operation in progress
    mass,           \* its arguments, locals and position
    mhist,          \* history of the operation, for the claims
    \* ClientManager: the pure functions, their arguments and results
    listed,         \* the inbounds GET /list returned to getAllSubscriptions
    subscriptions,  \* what getAllSubscriptions returned
    flowArgs,       \* the inbound and request given to determineVlessFlow
    flow,           \* what determineVlessFlow returned
    createArgs,     \* the inbound, request and random draws given to createClientForProtocol
    created,        \* the client createClientForProtocol returned
    \* InboundManager.addClient and the panel's inbound it works on
    adding          \* the call, the inbound's settings on the panel, what was fetched and posted

cbVars    == <<failures, nextAttempt, cbpc>>
cbHist    == <<consec, lastFailAt, overlap, lastCall, probing, lastDone>>
retryVars == <<rMax, rpc, attempt, lastError, raised, invocations, nFail, nTransient>>
sessVars  == <<isAuthenticated, sessionCookie, lastLoginTime>>
reqVars   == <<call, hist>>
massVars  == <<mass, mhist>>
fnVars    == <<listed, subscriptions, flowArgs, flow, createArgs, created, adding>>
vars      == <<now, cbVars, cbHist, retryVars, sessVars, reqVars, massVars, fnVars>>

\* ------------------------------------------------------------ error values
\* ApiError and its subclasses (types.ts); status 0 stands for "no statusCode".
NoError == [kind |-> "none", status |-> 0]
ApiError(s)            == [kind |-> "Api", status |-> s]
AuthenticationError    == [kind |-> "Authentication", status |-> 401]
ValidationError        == [kind |-> "Validation", status |-> 400]
NetworkError(s)        == [kind |-> "Network", status |-> s]
CircuitOpenError       == ApiError(0)

\* ============================================================ CircuitBreaker
\* getStatus().isOpen, which is also the guard of the throw in call()
isOpen == failures >= threshold /\ now < nextAttempt

InitCB ==
    /\ failures = 0
    /\ nextAttempt = now
    /\ cbpc = [c \in Callers |-> "idle"]

\* the breaker has counted threshold failures and its timeout has elapsed
HalfOpen == failures >= threshold /\ now >= nextAttempt

\* no invocation of fn has ended yet
NotDone ==
    [ outcome |-> "none",    \* "success" or "failure"
      before  |-> 0,         \* failures before fn ended
      after   |-> 0,         \* failures after
      at      |-> 0,         \* the time fn ended
      next    |-> 0,         \* nextAttempt after
      probe   |-> FALSE,     \* the call had been admitted after an elapsed timeout
      solo    |-> TRUE,      \* no other call was inside call() with it
      fnError |-> NoError,   \* what fn threw
      thrown  |-> NoError ]  \* what call() threw

\* no call() has been made yet
InitCBHist ==
    /\ consec = 0
    /\ lastFailAt = 0
    /\ overlap = FALSE
    /\ lastCall = [expected |-> FALSE, rejected |-> FALSE, halfOpen |-> FALSE]
    /\ probing = [c \in Callers |-> FALSE]
    /\ lastDone = NotDone

Running == {c \in Callers : cbpc[c] = "running"}

\* call(): the breaker is open and the timeout has not elapsed: throw, fn not invoked
CBReject(c) ==
    /\ cbpc[c] = "idle"
    /\ isOpen
    /\ UNCHANGED <<failures, nextAttempt, cbpc>>

\* call(): not rejected; an elapsed timeout resets the counter; fn is invoked
CBAdmit(c) ==
    /\ cbpc[c] = "idle"
    /\ ~isOpen
    /\ failures' = IF failures >= threshold THEN 0 ELSE failures
    /\ cbpc' = [cbpc EXCEPT ![c] = "running"]
    /\ UNCHANGED nextAttempt

\* (mutant) a success that leaves the counter alone
CBSuccessKeeps(c) ==
    /\ cbpc[c] = "running"
    /\ cbpc' = [cbpc EXCEPT ![c] = "idle"]
    /\ UNCHANGED <<failures, nextAttempt>>

\* (mutant) a success that does not close a breaker opened since the call began
CBSuccessWhileClosed(c) ==
    /\ cbpc[c] = "running"
    /\ failures' = IF failures >= threshold THEN failures ELSE 0
    /\ cbpc' = [cbpc EXCEPT ![c] = "idle"]
    /\ UNCHANGED nextAttempt

\* call(): fn resolved
CBSuccess(c) ==
    /\ cbpc[c] = "running"
    /\ failures' = 0
    /\ cbpc' = [cbpc EXCEPT ![c] = "idle"]
    /\ UNCHANGED nextAttempt

\* (mutant) a breaker that opens one failure late
CBFailureLate(c) ==
    /\ cbpc[c] = "running"
    /\ failures' = failures + 1
    /\ nextAttempt' = IF failures + 1 > threshold THEN now + timeout ELSE nextAttempt
    /\ cbpc' = [cbpc EXCEPT ![c] = "idle"]

\* call(): fn threw
CBFailure(c) ==
    /\ cbpc[c] = "running"
    /\ failures' = failures + 1
    /\ nextAttempt' = IF failures + 1 >= threshold THEN now + timeout ELSE nextAttempt
    /\ cbpc' = [cbpc EXCEPT ![c] = "idle"]

Tick ==
    /\ now < StartTime + MaxTime
    /\ now' = now + 1

\* ================================================================= XUIClient
\* the session after construction
InitSession ==
    /\ isAuthenticated = FALSE
    /\ sessionCookie = 0
    /\ lastLoginTime = 0

\* no request in flight
NoCall == [pc |-> "none", sentCookie |-> 0, replayCookie |-> 0, result |-> "none"]

\* the history of a call that has just begun
NoHist ==
    [ logins       |-> 0,       \* login() executions started by the call
      relogins     |-> 0,       \* those started because of a 401
      aRelogins    |-> 0,       \* those of the current attempt
      requests     |-> 0,       \* privileged HTTP requests sent (replays included)
      aReplays     |-> 0,       \* replays sent in the current attempt
      issue        |-> "none",  \* the session as the first attempt found it
      preSend      |-> -1,      \* logins made when the first attempt sent its request
      granted      |-> 0,       \* the cookie the call's last successful login received
      replayStatus |-> 0,       \* the status that answered the current attempt's replay
      only401      |-> TRUE,    \* every login accepted, every request answered 401
      aCounted     |-> FALSE,   \* the breaker counted the current attempt as a failure
      loginReply   |-> -2,      \* what answered the last login() called on its own
      loginError   |-> NoError, \* what that login() threw
      loginValid   |-> FALSE,   \* the session was authenticated when it was answered
      alone        |-> TRUE,    \* nobody else has changed the session since
      refused      |-> FALSE ]  \* the breaker has rejected an attempt of the call

InitRequest ==
    /\ call = [c \in Callers |-> NoCall]
    /\ hist = [c \in Callers |-> NoHist]

\* ============================================================== ClientManager
\* no mass operation has been called
NoMass ==
    [ op           |-> "none",   \* "all", "subset" or "delete"
      pc           |-> "idle",   \* where the operation is
      request      |-> [subId |-> "", limitIp |-> [kind |-> "undefined", n |-> 0],
                       traffic |-> [kind |-> "undefined", size |-> 0, unit |-> "",
                                    unlimited |-> FALSE],
                       expiryDays |-> [kind |-> "undefined", n |-> 0]],
      inboundIds   |-> <<>>,     \* the ids given to createClientOnInbounds
      subId        |-> "",       \* the subId given to deleteClientsBySubId
      targets      |-> <<>>,     \* the resolved targets, in processing order
      i            |-> 1,        \* the target being processed
      inbound      |-> [id |-> 0, protocol |-> "none", remark |-> ""],
      results      |-> <<>>,
      successCount |-> 0,
      failedCount  |-> 0 ]

NoMassHist ==
    [ supplied  |-> "",      \* request.subId as the caller passed it
      generated |-> 0,       \* subscription ids generated by the operation
      built     |-> <<>>,    \* the subId of every client built, in order
      resolved  |-> FALSE,   \* the target set is known
      attempted |-> {},      \* targets whose processing has begun
      failedAt  |-> {},      \* targets on which something failed
      deletes   |-> 0,       \* delete calls sent to the panel
      sent      |-> FALSE,   \* a network call has been issued
      delLog    |-> <<>>,    \* the calls of deleteClient, in order
      pending   |-> "",      \* the email of the client being added
      emails    |-> {},      \* the emails of the clients created
      echoed    |-> TRUE,    \* every GET /get/:id was answered with the inbound of that id
      thrown    |-> "none",  \* what the operation threw
      given     |-> [subId |-> ""] ] \* the request as the caller passed it

InitMass ==
    /\ mass = NoMass
    /\ mhist = NoMassHist

\* nothing computed yet
NotComputed == [done |-> FALSE, value |-> <<>>]

NoFlowArgs ==
    [ flow     |-> "undefined",    \* request.vless?.flow
      stream   |-> FALSE,          \* inbound.streamSettings is there
      security |-> "undefined",
      network  |-> "undefined" ]

\* no addClient has been called; the panel's inbound has empty settings
NoAdd ==
    [ pc        |-> "idle",
      inboundId |-> 0,
      client    |-> [id |-> ""],
      remote    |-> [kind |-> "none", clients |-> <<>>],   \* inbound.settings on the panel
      fetched   |-> [kind |-> "none", clients |-> <<>>],   \* inbound.settings as GET returned it
      gets      |-> 0,                                     \* GET /get/:id answered
      sent      |-> FALSE,                                 \* POST /addClient issued
      posted    |-> [id |-> 0, clients |-> <<>>],          \* updateData
      thrown    |-> "none" ]

InitFn ==
    /\ listed = <<>>
    /\ subscriptions = NotComputed
    /\ flowArgs = NoFlowArgs
    /\ flow = NotComputed
    /\ createArgs = NotComputed
    /\ created = NotComputed
    /\ adding = NoAdd

\* ---------------------------------------------- the breaker on its own (SpecCB)
InitRetry ==
    /\ rpc = [c \in Callers |-> "idle"]
    /\ attempt = [c \in Callers |-> 0]
    /\ lastError = [c \in Callers |-> NoError]
    /\ raised = [c \in Callers |-> NoError]
    /\ invocations = [c \in Callers |-> 0]
    /\ nFail = [c \in Callers |-> 0]
    /\ nTransient = [c \in Callers |-> 0]

InitBreaker ==
    /\ now = StartTime
    /\ InitCB
    /\ InitCBHist
    /\ rMax = 0
    /\ InitRetry
    /\ InitSession
    /\ InitRequest
    /\ InitMass
    /\ InitFn

\* What the fail-fast property expects of a call made now: threshold consecutive
\* invocations have failed and the last counted failure is less than timeout ago.
ExpectReject == consec >= threshold /\ now < lastFailAt + timeout

BreakerCall ==
    \E c \in Callers :
        /\ \/ /\ CBReject(c)
              /\ lastCall' = [expected |-> ExpectReject, rejected |-> TRUE,
                              halfOpen |-> HalfOpen]
              /\ UNCHANGED <<overlap, probing>>
           \/ /\ CBAdmit(c)
              /\ lastCall' = [expected |-> ExpectReject, rejected |-> FALSE,
                              halfOpen |-> HalfOpen]
              /\ overlap' = (overlap \/ Running # {})
              /\ probing' = [probing EXCEPT ![c] = HalfOpen]
        /\ UNCHANGED <<now, consec, lastFailAt, lastDone, retryVars, sessVars, reqVars,
                       massVars, fnVars>>

BreakerSuccess ==
    \E c \in Callers :
        /\ CBSuccess(c)
        /\ consec' = 0
        /\ lastDone' = [ outcome |-> "success", before |-> failures, after |-> failures',
                         at |-> now, next |-> nextAttempt', probe |-> probing[c],
                         solo |-> ~overlap, fnError |-> NoError, thrown |-> NoError ]
        /\ UNCHANGED <<now, lastFailAt, overlap, lastCall, probing, retryVars, sessVars,
                       reqVars, massVars, fnVars>>

\* fn throws error, and call() throws it on
BreakerFailure ==
    \E c \in Callers, error \in {NetworkError(0), AuthenticationError} :
        /\ CBFailure(c)
        /\ consec' = consec + 1
        /\ lastFailAt' = now
        /\ lastDone' = [ outcome |-> "failure", before |-> failures, after |-> failures',
                         at |-> now, next |-> nextAttempt', probe |-> probing[c],
                         solo |-> ~overlap, fnError |-> error, thrown |-> error ]
        /\ UNCHANGED <<now, overlap, lastCall, probing, retryVars, sessVars, reqVars,
                       massVars, fnVars>>

BreakerTick == Tick /\ UNCHANGED <<cbVars, cbHist, retryVars, sessVars, reqVars, massVars, fnVars>>

NextBreaker == BreakerCall \/ BreakerSuccess \/ BreakerFailure \/ BreakerTick

SpecCB == InitBreaker /\ [][NextBreaker]_vars

\* ========================================================== resilientApiCall
\* The claims' notion of a transient failure: a network-class failure whose
\* status is neither 401 nor 403 (the histories nFail / nTransient use it).
TransientFailure(error) ==
    error.kind = "Network" /\ error.status \notin {401, 403}

\* (mutant) the predicate without its instanceof NetworkError test
retryableErrorsNoKind(error) ==
    error.status # 401 /\ error.status # 403

\* (mutant) the predicate accepting every ApiError but those of 401 and 403
retryableErrorsAnyApiError(error) ==
    error.kind \in {"Network", "Api"} /\ error.status # 401 /\ error.status # 403

\* the default retryableErrors predicate
retryableErrors(error) ==
    error.kind = "Network" /\ error.status # 401 /\ error.status # 403

\* try { return await fn() }: fn is invoked
Invoked(c) == invocations' = [invocations EXCEPT ![c] = @ + 1]

\* (mutant) the catch block giving up one attempt early
CaughtOffByOne(c, error) ==
    /\ lastError' = [lastError EXCEPT ![c] = error]
    /\ nFail' = [nFail EXCEPT ![c] = @ + 1]
    /\ nTransient' = [nTransient EXCEPT ![c] = IF TransientFailure(error) THEN @ + 1 ELSE @]
    /\ IF attempt[c] + 1 >= rMax \/ ~retryableErrors(error)
       THEN /\ rpc' = [rpc EXCEPT ![c] = "raised"]
            /\ raised' = [raised EXCEPT ![c] = error]
       ELSE /\ rpc' = [rpc EXCEPT ![c] = "delay"]
            /\ UNCHANGED raised
    /\ UNCHANGED attempt

\* (mutant) the catch block throwing what lastError held before this failure
CaughtThrowsEarlier(c, error) ==
    /\ lastError' = [lastError EXCEPT ![c] = error]
    /\ nFail' = [nFail EXCEPT ![c] = @ + 1]
    /\ nTransient' = [nTransient EXCEPT ![c] = IF TransientFailure(error) THEN @ + 1 ELSE @]
    /\ IF attempt[c] = rMax \/ ~retryableErrors(error)
       THEN /\ rpc' = [rpc EXCEPT ![c] = "raised"]
            /\ raised' = [raised EXCEPT ![c] = lastError[c]]
       ELSE /\ rpc' = [rpc EXCEPT ![c] = "delay"]
            /\ UNCHANGED raised
    /\ UNCHANGED attempt

\* the catch block
Caught(c, error) ==
    /\ lastError' = [lastError EXCEPT ![c] = error]
    /\ nFail' = [nFail EXCEPT ![c] = @ + 1]
    /\ nTransient' = [nTransient EXCEPT ![c] = IF TransientFailure(error) THEN @ + 1 ELSE @]
    /\ IF attempt[c] = rMax \/ ~retryableErrors(error)
       THEN /\ rpc' = [rpc EXCEPT ![c] = "raised"]
            /\ raised' = [raised EXCEPT ![c] = error]
       ELSE /\ rpc' = [rpc EXCEPT ![c] = "delay"]
            /\ UNCHANGED raised
    /\ UNCHANGED attempt

\* return await fn(): fn resolved
Returned(c) ==
    /\ rpc' = [rpc EXCEPT ![c] = "returned"]
    /\ UNCHANGED <<attempt, lastError, raised, nFail, nTransient>>

\* the delay is over: attempt++, and the loop body runs again
Delayed(c) ==
    /\ rpc[c] = "delay"
    /\ rpc' = [rpc EXCEPT ![c] = "ready"]
    /\ attempt' = [attempt EXCEPT ![c] = @ + 1]

\* a new call of resilientApiCall: attempt = 0, and the history starts again
Fresh(c) ==
    /\ rpc[c] \in {"idle", "returned", "raised"}
    /\ rpc' = [rpc EXCEPT ![c] = "ready"]
    /\ attempt' = [attempt EXCEPT ![c] = 0]
    /\ invocations' = [invocations EXCEPT ![c] = 0]
    /\ lastError' = [lastError EXCEPT ![c] = NoError]
    /\ raised' = [raised EXCEPT ![c] = NoError]
    /\ nFail' = [nFail EXCEPT ![c] = 0]
    /\ nTransient' = [nTransient EXCEPT ![c] = 0]

\* ------------------------------ the retry layer over an abstract fn (SpecRetry)
\* what fn may throw: every error class, with and without a status code
FnErrors ==
    { NetworkError(0), NetworkError(500), NetworkError(401), NetworkError(403),
      AuthenticationError, ValidationError, ApiError(404), CircuitOpenError }

InitRetryLayer ==
    /\ now = StartTime
    /\ InitCB
    /\ InitCBHist
    /\ rMax \in 0..MaxRetries
    /\ InitRetry
    /\ InitSession
    /\ InitRequest
    /\ InitMass
    /\ InitFn

RetryStart ==
    \E c \in Callers :
        /\ Fresh(c)
        /\ UNCHANGED <<now, cbVars, cbHist, sessVars, reqVars, massVars, fnVars, rMax>>

\* the loop body: try { return await fn() }
RetryInvoke ==
    \E c \in Callers :
        /\ rpc[c] = "ready"
        /\ rpc' = [rpc EXCEPT ![c] = "call"]
        /\ Invoked(c)
        /\ UNCHANGED <<now, cbVars, cbHist, sessVars, reqVars, massVars, fnVars, rMax, attempt, lastError, raised, nFail, nTransient>>

RetryResolve ==
    \E c \in Callers :
        /\ rpc[c] = "call"
        /\ Returned(c)
        /\ UNCHANGED <<now, cbVars, cbHist, sessVars, reqVars, massVars, fnVars, rMax, invocations>>

RetryReject ==
    \E c \in Callers, error \in FnErrors :
        /\ rpc[c] = "call"
        /\ Caught(c, error)
        /\ UNCHANGED <<now, cbVars, cbHist, sessVars, reqVars, massVars, fnVars, rMax, invocations>>

RetryAgain ==
    \E c \in Callers :
        /\ Delayed(c)
        /\ UNCHANGED <<now, cbVars, cbHist, sessVars, reqVars, massVars, fnVars, rMax, lastError, raised, invocations, nFail, nTransient>>

NextRetry == RetryStart \/ RetryInvoke \/ RetryResolve \/ RetryReject \/ RetryAgain

SpecRetry == InitRetryLayer /\ [][NextRetry]_vars

\* ========================================================== XUIClient.request
\* What the panel may answer.  A login is answered with a session cookie
\* (1..NCookies), with no cookie (0), or the transport fails (-1).  A privileged
\* request is answered with a status, or the transport fails or times out (0).
LoginReplies == -1..NCookies
Statuses     == {200, 401, 403, 404, 422, 400, 500, 302}
Replies      == Statuses \cup {0}

Ok(status) == status >= 200 /\ status <= 299

\* (mutant) handleHttpError without its 401 and 403 branches
handleHttpErrorNoAuth(status) ==
    IF status = 404 THEN ApiError(404)
    ELSE IF status = 422 THEN ValidationError
    ELSE IF status >= 400 /\ status < 500 THEN ApiError(status)
    ELSE NetworkError(status)

\* handleHttpError: the error thrown for a response that is not ok
handleHttpError(status) ==
    IF status = 401 THEN AuthenticationError
    ELSE IF status = 403 THEN AuthenticationError
    ELSE IF status = 404 THEN ApiError(404)
    ELSE IF status = 422 THEN ValidationError
    ELSE IF status >= 400 /\ status < 500 THEN ApiError(status)
    ELSE NetworkError(status)

\* login(): what it throws for a reply that is not a cookie
LoginError(reply) == IF reply = 0 THEN AuthenticationError ELSE NetworkError(0)

\* (mutant) ensureAuthenticated without the session-age test
NeedLoginNoAge ==
    ~isAuthenticated \/ sessionCookie = 0

\* ensureAuthenticated's condition for login()
NeedLogin ==
    ~isAuthenticated \/ sessionCookie = 0 \/ now - lastLoginTime > oneHour

\* the session as a starting call finds it (history)
SessionSeen ==
    IF now - lastLoginTime > oneHour THEN "stale"
    ELSE IF isAuthenticated /\ sessionCookie # 0 THEN "fresh" ELSE "unauth"

\* (mutant) a login() that does not record when it succeeded
LoginSucceededNoTime(k) ==
    /\ sessionCookie' = k
    /\ isAuthenticated' = TRUE
    /\ UNCHANGED lastLoginTime

\* login() succeeded with the cookie k
LoginSucceeded(k) ==
    /\ sessionCookie' = k
    /\ isAuthenticated' = TRUE
    /\ lastLoginTime' = now

\* (mutant) a catch block that drops the cookie and keeps the flag
LoginFailedKeepsFlag ==
    /\ sessionCookie' = 0
    /\ UNCHANGED <<isAuthenticated, lastLoginTime>>

\* login()'s catch block
LoginFailed ==
    /\ isAuthenticated' = FALSE
    /\ sessionCookie' = 0
    /\ UNCHANGED lastLoginTime

\* makeHttpRequest on a 401, before the re-login
Invalidate ==
    /\ isAuthenticated' = FALSE
    /\ sessionCookie' = 0
    /\ UNCHANGED lastLoginTime

\* (mutant) the replay reusing the Cookie header of the rejected request
ReplayCookieStale(c) == call[c].sentCookie

\* the Cookie header of the replay: this.sessionCookie, read after the re-login
ReplayCookie(c) == sessionCookie'

\* history: the step of c changed the session under the other callers
Touched(c, h) == [d \in Callers |-> IF d = c THEN h ELSE [hist[d] EXCEPT !.alone = FALSE]]

InitClient ==
    /\ now = StartTime
    /\ InitCB
    /\ InitCBHist
    /\ rMax = MaxRetries
    /\ InitRetry
    /\ InitSession
    /\ InitRequest
    /\ InitMass
    /\ InitFn

\* request(): resilientApiCall begins
ReqStart ==
    \E c \in Users :
        /\ Fresh(c)
        /\ call' = [call EXCEPT ![c] = NoCall]
        /\ hist' = [hist EXCEPT ![c] = NoHist]
        /\ UNCHANGED <<now, cbVars, cbHist, sessVars, rMax, massVars, fnVars>>

\* an attempt that the open breaker rejects: no transport call, ApiError
ReqRejected ==
    \E c \in Users :
        /\ rpc[c] = "ready"
        /\ Invoked(c)
        /\ CBReject(c)
        /\ Caught(c, CircuitOpenError)
        /\ hist' = [hist EXCEPT ![c].issue = IF attempt[c] = 0 THEN "rejected" ELSE @,
                                ![c].only401 = FALSE,
                                ![c].refused = TRUE]
        /\ UNCHANGED <<now, cbHist, sessVars, rMax, call, massVars, fnVars>>

\* an attempt that the breaker admits: makeHttpRequest runs ensureAuthenticated
\* and either starts login() or sends the request with the cookie held
ReqAttempt ==
    \E c \in Users :
        /\ rpc[c] = "ready"
        /\ Invoked(c)
        /\ CBAdmit(c)
        /\ rpc' = [rpc EXCEPT ![c] = "call"]
        /\ IF NeedLogin
           THEN /\ call' = [call EXCEPT ![c].pc = "login1"]
                /\ hist' = [hist EXCEPT ![c].logins = @ + 1,
                                        ![c].aRelogins = 0,
                                        ![c].aReplays = 0,
                                        ![c].replayStatus = 0,
                                        ![c].aCounted = FALSE,
                                        ![c].issue = IF attempt[c] = 0 THEN SessionSeen ELSE @]
           ELSE /\ call' = [call EXCEPT ![c].pc = "send", ![c].sentCookie = sessionCookie]
                /\ hist' = [hist EXCEPT ![c].requests = @ + 1,
                                        ![c].aRelogins = 0,
                                        ![c].aReplays = 0,
                                        ![c].replayStatus = 0,
                                        ![c].aCounted = FALSE,
                                        ![c].issue = IF attempt[c] = 0 THEN SessionSeen ELSE @,
                                        ![c].preSend = IF attempt[c] = 0 THEN hist[c].logins ELSE @]
        /\ UNCHANGED <<now, cbHist, sessVars, rMax, attempt, lastError, raised, nFail, nTransient, massVars, fnVars>>

\* login() of ensureAuthenticated is answered: on a cookie the request is sent
\* with it, otherwise login() throws through makeHttpRequest and the breaker
ReqLoginReply ==
    \E c \in Users, reply \in LoginReplies :
        /\ call[c].pc = "login1"
        /\ IF reply > 0
           THEN /\ LoginSucceeded(reply)
                /\ call' = [call EXCEPT ![c].pc = "send", ![c].sentCookie = sessionCookie']
                /\ hist' = Touched(c, [hist[c] EXCEPT !.requests = @ + 1,
                                                      !.granted = reply,
                                                      !.preSend = IF attempt[c] = 0 THEN hist[c].logins ELSE @])
                /\ UNCHANGED <<cbVars, rpc, attempt, lastError, raised, nFail, nTransient>>
           ELSE /\ LoginFailed
                /\ CBFailure(c)
                /\ Caught(c, LoginError(reply))
                /\ call' = [call EXCEPT ![c].pc = "none"]
                /\ hist' = Touched(c, [hist[c] EXCEPT !.only401 = FALSE, !.aCounted = TRUE])
        /\ UNCHANGED <<now, cbHist, rMax, invocations, massVars, fnVars>>

\* (mutant) the status of the response checked inside the guarded call
ReqSendReplyChecked ==
    \E c \in Users, status \in Replies :
        /\ call[c].pc = "send"
        /\ IF status = 401
           THEN /\ Invalidate
                /\ call' = [call EXCEPT ![c].pc = "login2"]
                /\ hist' = Touched(c, [hist[c] EXCEPT !.logins = @ + 1,
                                                      !.relogins = @ + 1,
                                                      !.aRelogins = @ + 1])
                /\ UNCHANGED <<cbVars, rpc, attempt, lastError, raised, nFail, nTransient>>
           ELSE /\ call' = [call EXCEPT ![c].pc = "none",
                                        ![c].result = IF Ok(status) THEN "first" ELSE @]
                /\ hist' = [hist EXCEPT ![c].only401 = FALSE, ![c].aCounted = ~Ok(status)]
                /\ IF status = 0
                   THEN CBFailure(c) /\ Caught(c, NetworkError(0))
                   ELSE IF Ok(status)
                        THEN CBSuccess(c) /\ Returned(c)
                        ELSE CBFailure(c) /\ Caught(c, handleHttpError(status))
                /\ UNCHANGED sessVars
        /\ UNCHANGED <<now, cbHist, rMax, invocations, massVars, fnVars>>

\* the request is answered: a 401 invalidates the session and starts the
\* re-login; a transport failure throws; any other response is returned to
\* request(), which decodes it or hands it to handleHttpError
ReqSendReply ==
    \E c \in Users, status \in Replies :
        /\ call[c].pc = "send"
        /\ IF status = 401
           THEN /\ Invalidate
                /\ call' = [call EXCEPT ![c].pc = "login2"]
                /\ hist' = Touched(c, [hist[c] EXCEPT !.logins = @ + 1,
                                                      !.relogins = @ + 1,
                                                      !.aRelogins = @ + 1])
                /\ UNCHANGED <<cbVars, rpc, attempt, lastError, raised, nFail, nTransient>>
           ELSE /\ call' = [call EXCEPT ![c].pc = "none",
                                        ![c].result = IF Ok(status) THEN "first" ELSE @]
                /\ hist' = [hist EXCEPT ![c].only401 = FALSE, ![c].aCounted = (status = 0)]
                /\ IF status = 0
                   THEN CBFailure(c) /\ Caught(c, NetworkError(0))
                   ELSE /\ CBSuccess(c)
                        /\ IF Ok(status) THEN Returned(c) ELSE Caught(c, handleHttpError(status))
                /\ UNCHANGED sessVars
        /\ UNCHANGED <<now, cbHist, rMax, invocations, massVars, fnVars>>

\* the re-login is answered: on a cookie the request is replayed once with it
ReqReloginReply ==
    \E c \in Users, reply \in LoginReplies :
        /\ call[c].pc = "login2"
        /\ IF reply > 0
           THEN /\ LoginSucceeded(reply)
                /\ call' = [call EXCEPT ![c].pc = "replay", ![c].replayCookie = ReplayCookie(c)]
                /\ hist' = Touched(c, [hist[c] EXCEPT !.requests = @ + 1,
                                                      !.aReplays = @ + 1,
                                                      !.granted = reply])
                /\ UNCHANGED <<cbVars, rpc, attempt, lastError, raised, nFail, nTransient>>
           ELSE /\ LoginFailed
                /\ CBFailure(c)
                /\ Caught(c, LoginError(reply))
                /\ call' = [call EXCEPT ![c].pc = "none"]
                /\ hist' = Touched(c, [hist[c] EXCEPT !.only401 = FALSE, !.aCounted = TRUE])
        /\ UNCHANGED <<now, cbHist, rMax, invocations, massVars, fnVars>>

\* (mutant) a replay sent through makeHttpRequest again: its 401 re-logs in
ReqReplayReplyRecursive ==
    \E c \in Users, status \in Replies :
        /\ call[c].pc = "replay"
        /\ IF status = 401
           THEN /\ Invalidate
                /\ call' = [call EXCEPT ![c].pc = "login2"]
                /\ hist' = Touched(c, [hist[c] EXCEPT !.logins = @ + 1,
                                                      !.relogins = @ + 1,
                                                      !.aRelogins = @ + 1])
                /\ UNCHANGED <<cbVars, rpc, attempt, lastError, raised, nFail, nTransient>>
           ELSE /\ call' = [call EXCEPT ![c].pc = "none",
                                        ![c].result = IF Ok(status) THEN "replay" ELSE @]
                /\ hist' = [hist EXCEPT ![c].replayStatus = status, ![c].only401 = FALSE,
                                        ![c].aCounted = (status = 0)]
                /\ IF status = 0
                   THEN CBFailure(c) /\ Caught(c, NetworkError(0))
                   ELSE /\ CBSuccess(c)
                        /\ IF Ok(status) THEN Returned(c) ELSE Caught(c, handleHttpError(status))
                /\ UNCHANGED sessVars
        /\ UNCHANGED <<now, cbHist, rMax, invocations, massVars, fnVars>>

\* the replay is answered: whatever the status, the response is returned to
\* request(); a transport failure throws
ReqReplayReply ==
    \E c \in Users, status \in Replies :
        /\ call[c].pc = "replay"
        /\ call' = [call EXCEPT ![c].pc = "none",
                                ![c].result = IF Ok(status) THEN "replay" ELSE @]
        /\ hist' = [hist EXCEPT ![c].replayStatus = status,
                                ![c].only401 = (@ /\ status = 401),
                                ![c].aCounted = (status = 0)]
        /\ IF status = 0
           THEN CBFailure(c) /\ Caught(c, NetworkError(0))
           ELSE /\ CBSuccess(c)
                /\ IF Ok(status) THEN Returned(c) ELSE Caught(c, handleHttpError(status))
        /\ UNCHANGED <<now, cbHist, sessVars, rMax, invocations, massVars, fnVars>>

\* the backoff delay is over
ReqRetry ==
    \E c \in Users :
        /\ Delayed(c)
        /\ UNCHANGED <<now, cbVars, cbHist, sessVars, reqVars, massVars, fnVars, rMax, lastError,
                       raised, invocations, nFail, nTransient>>

\* (mutant) a logout() that keeps the time of the last login
LogoutKeepsTime ==
    /\ isAuthenticated' = FALSE
    /\ sessionCookie' = 0
    /\ UNCHANGED lastLoginTime
    /\ hist' = [d \in Callers |-> [hist[d] EXCEPT !.alone = FALSE]]
    /\ UNCHANGED <<now, cbVars, cbHist, retryVars, call, massVars, fnVars>>

\* logout()
Logout ==
    /\ isAuthenticated' = FALSE
    /\ sessionCookie' = 0
    /\ lastLoginTime' = 0
    /\ hist' = [d \in Callers |-> [hist[d] EXCEPT !.alone = FALSE]]
    /\ UNCHANGED <<now, cbVars, cbHist, retryVars, call, massVars, fnVars>>

ReqTick == Tick /\ UNCHANGED <<cbVars, cbHist, retryVars, sessVars, reqVars, massVars, fnVars>>

NextClient ==
    \/ ReqStart \/ ReqRejected \/ ReqAttempt \/ ReqLoginReply \/ ReqSendReply
    \/ ReqReloginReply \/ ReqReplayReply \/ ReqRetry \/ Logout \/ ReqTick

SpecClient == InitClient /\ [][NextClient]_vars

\* ------------------------------------------- the mass operations (SpecMass)
\* The manager sees XUIClient.get / post through their outcome only: the
\* decoded response, with or without its success flag and obj, or one of the
\* errors request() raises.
RequestErrors == {"Validation", "Api", "Authentication", "Network", "CircuitOpen"}
Outcomes      == RequestErrors \cup {"refused", "ok"}

\* error.message of what a step threw; 'Unknown error' is never needed, every
\* thrown value being an Error
Message(outcome) == IF outcome = "refused" THEN "Error" ELSE outcome

Uuids    == {"uuid-1", "uuid-2"}        \* values of generateUUID()
Emails   == {"mail-1", "mail-2"}        \* values of generateRandomEmail()
\* what one createClientForProtocol draws: generateUniqueEmail(), the
\* generateUUID() of the id (the one of a password is of no consequence here,
\* and is the other value)
Draws    ==
    {[id |-> u, email |-> e, password |-> CHOOSE v \in Uuids : v # u] : u \in Uuids, e \in Emails}
SubIds   == {"", " ", "sub-1"}          \* "" also stands for an absent subId
LimitIps ==
    { [kind |-> "undefined", n |-> 0], [kind |-> "unlimited", n |-> 0],
      [kind |-> "number", n |-> -1], [kind |-> "number", n |-> 3] }
\* a limitIp or expiryDays that is a number but no integer (1.5, NaN)
Fraction == [kind |-> "fraction", n |-> 1]
NoDays   == [kind |-> "undefined", n |-> 0]
\* request.traffic: absent, 'unlimited', or a TrafficConfig object
NoTraffic == [kind |-> "undefined", size |-> 0, unit |-> "", unlimited |-> FALSE]
TrafficConfig(size, unit, unlimited) ==
    [kind |-> "object", size |-> size, unit |-> unit, unlimited |-> unlimited]
\* values the validation rejects
BadLimitIps == {[kind |-> "number", n |-> -1], Fraction}
BadTraffics ==
    {TrafficConfig(0, "GB", FALSE), TrafficConfig(-1, "MB", FALSE),
     TrafficConfig(2, "KB", FALSE), TrafficConfig(0, "GB", TRUE)}
BadDays     == {[kind |-> "number", n |-> -1], Fraction}
\* the requests of the mass operations: every subId and limitIp without
\* traffic or expiry, and every combination of rejected values
Requests ==
    [subId : {"", "sub-1"}, limitIp : LimitIps, traffic : {NoTraffic}, expiryDays : {NoDays}]
    \cup [subId : {""}, limitIp : BadLimitIps \cup {[kind |-> "undefined", n |-> 0]},
          traffic : BadTraffics \cup {NoTraffic}, expiryDays : BadDays \cup {NoDays}]
Inbounds == [id : {0, 1}, protocol : {"vless", "trojan", "missing"}, remark : {"remark-1"}]
\* the members of a subscription: on inbound 1 every protocol, in other
\* spellings too, a trojan client with and without its password; on the
\* invalid inbound id 0 one vless client
Members  ==
    [inboundId : {1},
     protocol : {"vless", "trojan", "VMess", "Shadowsocks", "TROJAN", "http"},
     client : [id : {"id-1"}, password : {"pw-1"}, email : {"e-1"}]]
    \cup [inboundId : {1}, protocol : {"trojan"},
          client : [id : {"id-1"}, password : {""}, email : {"e-1"}]]
    \cup [inboundId : {0}, protocol : {"vless"},
          client : [id : {"id-1"}, password : {""}, email : {"e-1"}]]

SeqsUpTo(S, n) == UNION {[1..k -> S] : k \in 0..n}

Trim(str) == IF str = " " THEN "" ELSE str

\* (mutant) a comparison that keeps the case of the setting
toLowerCaseKept(str) == str

\* String.prototype.toLowerCase on the strings of the model; ?. leaves
\* undefined alone
toLowerCase(str) ==
    CASE str = "TLS"     -> "tls"
      [] str = "Reality" -> "reality"
      [] str \in {"XTLS", "Xtls"} -> "xtls"
      [] str = "TCP"     -> "tcp"
      [] str \in {"VMESS", "VMess"} -> "vmess"
      [] str = "VLESS"   -> "vless"
      [] str \in {"TROJAN", "Trojan"} -> "trojan"
      [] str \in {"SHADOWSOCKS", "Shadowsocks"} -> "shadowsocks"
      [] OTHER           -> str

\* Number.isInteger(x) && x >= 0, for a value that is there and not 'unlimited'
NonNegativeInteger(x) == x.kind = "number" /\ x.n >= 0

\* (mutant) the validation without its check of expiryDays
validateMassClientRequestNoExpiry(req) ==
    /\ req.limitIp.kind \notin {"undefined", "unlimited"} => NonNegativeInteger(req.limitIp)
    /\ req.traffic.kind = "object" =>
           req.traffic.size > 0 /\ req.traffic.unit \in {"MB", "GB", "TB"}

\* validateMassClientRequest: TRUE when it returns, FALSE when it throws its
\* ValidationError
validateMassClientRequest(req) ==
    /\ req.limitIp.kind \notin {"undefined", "unlimited"} => NonNegativeInteger(req.limitIp)
    /\ req.traffic.kind = "object" =>
           req.traffic.size > 0 /\ req.traffic.unit \in {"MB", "GB", "TB"}
    /\ req.expiryDays.kind \notin {"undefined", "unlimited"} =>
           NonNegativeInteger(req.expiryDays)

validateInboundId(id) == id > 0

convertIpLimit(limit) ==
    IF limit.kind = "unlimited" THEN 0 ELSE IF limit.n > 0 THEN limit.n ELSE 0

\* determineVlessFlow and what it is given
\* "undefined" stands for a property that is not there
Flows      == {"undefined", "", "xtls-rprx-vision", "xtls-rprx-direct"}
Securities == {"undefined", "", "none", "tls", "TLS", "reality", "Reality",
               "xtls", "XTLS", "Xtls"}
Networks   == {"undefined", "tcp", "TCP", "ws", "grpc", "h2", "httpupgrade", "kcp"}

FlowArgs ==
    {a \in [flow : Flows, stream : BOOLEAN, security : Securities, network : Networks] :
        ~a.stream => a.security = "undefined" /\ a.network = "undefined"}

determineVlessFlow(a) ==
    IF a.flow # "undefined" THEN a.flow
    ELSE IF ~a.stream THEN ""
    ELSE LET security == toLowerCase(a.security)
             network  == toLowerCase(a.network)
         IN  IF security = "xtls" THEN "xtls-rprx-vision"
             ELSE IF security = "tls" \/ security = "reality" THEN ""
             ELSE IF network = "tcp" /\ (security \in {"undefined", ""} \/ security = "none")
                  THEN ""
             ELSE IF network \in {"ws", "grpc", "h2", "httpupgrade"} THEN ""
             ELSE ""

\* (mutant) a subscription id generated whether or not the request has one
WithSubIdAlways(req, uuid) == [req EXCEPT !.subId = uuid]

\* if (!request.subId) request.subId = generateUUID()
WithSubId(req, uuid) == IF req.subId = "" THEN [req EXCEPT !.subId = uuid] ELSE req

\* a property of an object, or none when the object has no such property
Opt(rec, f, none) == IF f \in DOMAIN rec THEN rec[f] ELSE none

\* the multipliers of convertTrafficToBytes, in units of 2^20 bytes (so are
\* all byte counts of the model)
multipliers(unit) ==
    CASE unit = "MB" -> 1
      [] unit = "GB" -> 1024
      [] unit = "TB" -> 1024 * 1024

convertTrafficToBytes(traffic) ==
    IF traffic.kind = "unlimited" THEN 0
    ELSE IF traffic.unlimited THEN 0
    ELSE traffic.size * multipliers(traffic.unit)

\* 24 * 60 * 60 * 1000 ms, in ticks
day == 24 * oneHour

\* (mutant) an 'unlimited' expiry that expires now
convertExpiryDaysFromNow(days) ==
    IF days.kind = "unlimited" THEN now
    ELSE IF days.n <= 0 THEN 0
    ELSE now + days.n * day

convertExpiryDays(days) ==
    IF days.kind = "unlimited" THEN 0
    ELSE IF days.n <= 0 THEN 0
    ELSE now + days.n * day

\* (mutant) a test for presence (x !== undefined) in place of truthiness
TruthyDefined(x) == x.kind # "undefined"

\* x ? ... : ... for a limit: 'unlimited' and every number but 0 are truthy
Truthy(x) == x.kind = "unlimited" \/ (x.kind \in {"number", "fraction"} /\ x.n # 0)

\* (mutant) a base client that draws a subscription id of its own
baseClientOwnSubId(req, rnd) ==
    [ id         |-> rnd.id,
      email      |-> rnd.email,
      enable     |-> Opt(req, "enable", TRUE),
      limitIp    |-> IF Truthy(req.limitIp) THEN convertIpLimit(req.limitIp) ELSE 2,
      totalGB    |-> IF req.traffic.kind # "undefined"
                     THEN convertTrafficToBytes(req.traffic) ELSE 0,
      expiryTime |-> IF Truthy(req.expiryDays) THEN convertExpiryDays(req.expiryDays) ELSE 0,
      subId      |-> rnd.id,
      reset      |-> Opt(req, "reset", 0) ]

\* createClientForProtocol: the fields every client has
baseClient(req, rnd) ==
    [ id         |-> rnd.id,
      email      |-> rnd.email,
      enable     |-> Opt(req, "enable", TRUE),
      limitIp    |-> IF Truthy(req.limitIp) THEN convertIpLimit(req.limitIp) ELSE 2,
      totalGB    |-> IF req.traffic.kind # "undefined"
                     THEN convertTrafficToBytes(req.traffic) ELSE 0,
      expiryTime |-> IF Truthy(req.expiryDays) THEN convertExpiryDays(req.expiryDays) ELSE 0,
      subId      |-> req.subId,
      reset      |-> Opt(req, "reset", 0) ]

\* x ?? d
Coalesce(x, d) == IF x = "undefined" THEN d ELSE x

\* the request createUniversalClient hands to createClientOnAllInbounds
createUniversalClient(options) ==
    [ subId      |-> options.subId,
      enable     |-> TRUE,
      limitIp    |-> IF options.limitIp.kind = "undefined"
                     THEN [kind |-> "unlimited", n |-> 0] ELSE options.limitIp,
      traffic    |-> IF options.traffic.kind = "undefined"
                     THEN [NoTraffic EXCEPT !.kind = "unlimited"] ELSE options.traffic,
      expiryDays |-> IF options.expiryDays.kind = "undefined"
                     THEN [kind |-> "unlimited", n |-> 0] ELSE options.expiryDays,
      reset      |-> 0 ]

\* what determineVlessFlow reads of the inbound and the request
VlessArgs(inb, req) ==
    [ flow     |-> Opt(req, "vlessFlow", "undefined"),
      stream   |-> Opt(inb, "stream", FALSE),
      security |-> Opt(inb, "security", "undefined"),
      network  |-> Opt(inb, "network", "undefined") ]

\* (mutant) a shadowsocks client without its method
createClientForProtocolNoMethod(inb, req, rnd) ==
    LET protocol == toLowerCase(inb.protocol)
    IN  CASE protocol = "vmess" ->
               baseClient(req, rnd) @@
               [ alterId  |-> Opt(req, "vmessAlterId", 0),
                 security |-> Coalesce(Opt(req, "vmessSecurity", "undefined"), "auto") ]
          [] protocol = "trojan" ->
               baseClient(req, rnd) @@
               [ password |-> Coalesce(Opt(req, "trojanPassword", "undefined"), rnd.password) ]
          [] protocol = "shadowsocks" ->
               baseClient(req, rnd) @@
               [ password |-> Coalesce(Opt(req, "ssPassword", "undefined"), rnd.password) ]
          [] OTHER ->
               baseClient(req, rnd) @@ [ flow |-> determineVlessFlow(VlessArgs(inb, req)) ]

\* the client built for one inbound (a protocol that is there: toLowerCase
\* throws on a missing one); rnd are the values drawn by generateUUID and
\* generateRandomEmail
createClientForProtocol(inb, req, rnd) ==
    LET protocol == toLowerCase(inb.protocol)
    IN  CASE protocol = "vmess" ->
               baseClient(req, rnd) @@
               [ alterId  |-> Opt(req, "vmessAlterId", 0),
                 security |-> Coalesce(Opt(req, "vmessSecurity", "undefined"), "auto") ]
          [] protocol = "trojan" ->
               baseClient(req, rnd) @@
               [ password |-> Coalesce(Opt(req, "trojanPassword", "undefined"), rnd.password) ]
          [] protocol = "shadowsocks" ->
               baseClient(req, rnd) @@
               [ method   |-> Coalesce(Opt(req, "ssMethod", "undefined"), "aes-256-gcm"),
                 password |-> Coalesce(Opt(req, "ssPassword", "undefined"), rnd.password) ]
          [] OTHER ->
               baseClient(req, rnd) @@ [ flow |-> determineVlessFlow(VlessArgs(inb, req)) ]

\* (mutant) a delete key that is the identifier whatever the protocol
getClientIdForProtocolAlwaysId(client, protocol) == client.id

getClientIdForProtocol(client, protocol) ==
    CASE toLowerCase(protocol) \in {"vmess", "vless"} -> client.id
      [] toLowerCase(protocol) = "trojan"             -> client.password
      [] toLowerCase(protocol) = "shadowsocks"        -> client.email
      [] OTHER                                        -> client.id

\* (mutant) a loop that passes over a target
AdvanceSkipsOne(m) ==
    [m EXCEPT !.i = @ + 2,
              !.pc = IF m.i + 1 >= Len(m.targets) THEN "report" ELSE "next"]

\* the for loop goes on to the next target, or the report is returned
Advance(m) ==
    [m EXCEPT !.i = @ + 1,
              !.pc = IF m.i >= Len(m.targets) THEN "report" ELSE "next"]

\* the entry pushed for the current target: a mass create names the inbound by
\* its remark and protocol (the subset variant's catch block writes 'Unknown'
\* for both), a mass delete has neither ("")
ResultEntry(m, id, ok, msg) ==
    [ inboundId     |-> id,
      inboundRemark |-> IF m.op = "delete" THEN ""
                        ELSE IF ok THEN m.inbound.remark
                        ELSE IF m.op = "all" THEN m.targets[m.i].remark
                        ELSE "Unknown",
      protocol      |-> IF m.op = "delete" THEN ""
                        ELSE IF ok THEN m.inbound.protocol
                        ELSE IF m.op = "all" THEN m.targets[m.i].protocol
                        ELSE "Unknown",
      success       |-> ok,
      error         |-> msg ]

\* (mutant) a success recorded at the head of the report
SucceededPrepend(m, id) ==
    Advance([m EXCEPT !.results = <<ResultEntry(m, id, TRUE, "")>> \o @,
                      !.successCount = @ + 1])

\* the end of the inner try block
Succeeded(m, id) ==
    Advance([m EXCEPT !.results = Append(@, ResultEntry(m, id, TRUE, "")),
                      !.successCount = @ + 1])

\* (mutant) an inner catch block that forgets to count
FailedNoCount(m, id, msg) ==
    Advance([m EXCEPT !.results = Append(@, ResultEntry(m, id, FALSE, msg))])

\* (mutant) an inner catch block that rethrows
FailedAbort(m, id, msg) ==
    [m EXCEPT !.results = Append(@, ResultEntry(m, id, FALSE, msg)),
              !.failedCount = @ + 1,
              !.pc = "raised"]

\* the inner catch block
Failed(m, id, msg) ==
    Advance([m EXCEPT !.results = Append(@, ResultEntry(m, id, FALSE, msg)),
                      !.failedCount = @ + 1])

\* the inboundId a failure on the current target is reported under
FailId ==
    IF mass.op = "subset" THEN mass.targets[mass.i]
    ELSE IF mass.op = "all" THEN mass.targets[mass.i].id
    ELSE mass.targets[mass.i].inboundId

Fail(msg, h) ==
    /\ mass' = Failed(mass, FailId, msg)
    /\ mhist' = [h EXCEPT !.failedAt = @ \cup {mass.i}]

clientSide == <<now, cbVars, cbHist, retryVars, sessVars, reqVars, fnVars>>

\* createClientForProtocol, then addClient up to its GET
Build(inb, rnd, h) ==
    IF inb.protocol = "missing"
    THEN Fail("TypeError", h)
    ELSE LET client == createClientForProtocol(inb, mass.request, rnd)
             hb     == [h EXCEPT !.built = Append(@, client.subId)]
         IN  IF ~validateInboundId(inb.id)
             THEN Fail("Validation", hb)
             ELSE /\ mass' = [mass EXCEPT !.pc = "addGet", !.inbound = inb]
                  /\ mhist' = [hb EXCEPT !.pending = client.email]

\* ClientManager keeps nothing between two mass operations: one is followed
Startable == mass.pc = "idle"

InitMassSpec ==
    /\ now = StartTime
    /\ InitCB
    /\ InitCBHist
    /\ rMax = MaxRetries
    /\ InitRetry
    /\ InitSession
    /\ InitRequest
    /\ InitMass
    /\ InitFn

createClientOnAllInbounds ==
    \E req \in Requests, uuid \in Uuids :
        /\ Startable
        /\ IF ~validateMassClientRequest(req)
           THEN /\ mass' = [NoMass EXCEPT !.op = "all", !.pc = "raised", !.request = req]
                /\ mhist' = [NoMassHist EXCEPT !.supplied = req.subId,
                                               !.thrown = "Validation",
                                               !.given = req]
           ELSE /\ mass' = [NoMass EXCEPT !.op = "all", !.pc = "list",
                                          !.request = WithSubId(req, uuid)]
                /\ mhist' = [NoMassHist EXCEPT !.supplied = req.subId,
                                               !.generated = IF req.subId = "" THEN 1 ELSE 0,
                                               !.sent = TRUE,
                                               !.given = req]
        /\ UNCHANGED clientSide

\* GET /list is answered: the inbounds listed are the targets
ListReply ==
    \E reply \in Outcomes, list \in SeqsUpTo(Inbounds, MaxTargets) :
        /\ mass.op = "all" /\ mass.pc = "list"
        /\ IF reply # "ok"
           THEN /\ mass' = [mass EXCEPT !.pc = "raised"]
                /\ mhist' = [mhist EXCEPT !.thrown = Message(reply)]
           ELSE /\ mass' = [mass EXCEPT !.targets = list,
                                        !.pc = IF list = <<>> THEN "report" ELSE "next"]
                /\ mhist' = [mhist EXCEPT !.resolved = TRUE]
        /\ UNCHANGED clientSide

CreateNext ==
    \E rnd \in Draws :
        /\ mass.op = "all" /\ mass.pc = "next"
        /\ Build(mass.targets[mass.i], rnd, [mhist EXCEPT !.attempted = @ \cup {mass.i}])
        /\ UNCHANGED clientSide

\* addClient: GET /get/:id is answered
AddGetReply ==
    \E reply \in Outcomes :
        /\ mass.pc = "addGet"
        /\ IF reply # "ok"
           THEN Fail(Message(reply), [mhist EXCEPT !.pending = ""])
           ELSE mass' = [mass EXCEPT !.pc = "addPost"] /\ UNCHANGED mhist
        /\ UNCHANGED clientSide

\* addClient: POST /addClient is answered
AddPostReply ==
    \E reply \in Outcomes :
        /\ mass.pc = "addPost"
        /\ IF reply # "ok"
           THEN Fail(Message(reply), [mhist EXCEPT !.pending = ""])
           ELSE /\ mass' = Succeeded(mass, mass.inbound.id)
                /\ mhist' = [mhist EXCEPT !.emails = @ \cup {mhist.pending},
                                           !.pending = ""]
        /\ UNCHANGED clientSide

createClientOnInbounds ==
    \E req \in Requests, ids \in SeqsUpTo({0, 1}, MaxTargets), uuid \in Uuids :
        /\ Startable
        /\ IF ~validateMassClientRequest(req) \/ ids = <<>>
           THEN /\ mass' = [NoMass EXCEPT !.op = "subset", !.pc = "raised",
                                          !.request = req, !.inboundIds = ids]
                /\ mhist' = [NoMassHist EXCEPT !.supplied = req.subId,
                                               !.thrown = "Validation",
                                               !.given = req]
           ELSE /\ mass' = [NoMass EXCEPT !.op = "subset", !.pc = "next",
                                          !.request = WithSubId(req, uuid),
                                          !.inboundIds = ids, !.targets = ids]
                /\ mhist' = [NoMassHist EXCEPT !.supplied = req.subId,
                                               !.generated = IF req.subId = "" THEN 1 ELSE 0,
                                               !.resolved = TRUE,
                                               !.given = req]
        /\ UNCHANGED clientSide

\* the loop sends GET /get/:id for the next id
SubsetNext ==
    /\ mass.op = "subset" /\ mass.pc = "next"
    /\ mass' = [mass EXCEPT !.pc = "get"]
    /\ mhist' = [mhist EXCEPT !.attempted = @ \cup {mass.i}, !.sent = TRUE]
    /\ UNCHANGED clientSide

GetReply ==
    \E reply \in Outcomes, inb \in Inbounds, rnd \in Draws :
        /\ mass.pc = "get"
        /\ IF reply # "ok" THEN Fail(Message(reply), mhist)
           ELSE Build(inb, rnd, [mhist EXCEPT !.echoed = @ /\ inb.id = mass.targets[mass.i]])
        /\ UNCHANGED clientSide

deleteClientsBySubId ==
    \E subId \in SubIds :
        /\ Startable
        /\ mass' = [NoMass EXCEPT !.op = "delete", !.subId = subId,
                                  !.pc = IF Trim(subId) = "" THEN "raised" ELSE "sub"]
        /\ mhist' = IF Trim(subId) = "" THEN [NoMassHist EXCEPT !.thrown = "Validation"]
                    ELSE [NoMassHist EXCEPT !.sent = TRUE]
        /\ UNCHANGED clientSide

\* (mutant) a missing subscription treated as an error
NoSubscriptionThrows(m) == [m EXCEPT !.pc = "raised"]

\* if (!subscription) return {success: 0, failed: 0, results: []}
NoSubscription(m) ==
    [m EXCEPT !.targets = <<>>, !.results = <<>>, !.successCount = 0, !.failedCount = 0,
              !.pc = "report"]

\* getSubscriptionById is answered: the members found are the targets (none
\* when there is no such subscription)
SubReply ==
    \E reply \in Outcomes, members \in SeqsUpTo(Members, MaxTargets) :
        /\ mass.pc = "sub"
        /\ IF reply # "ok"
           THEN /\ mass' = [mass EXCEPT !.pc = "raised"]
                /\ mhist' = [mhist EXCEPT !.thrown = Message(reply)]
           ELSE /\ mass' = IF members = <<>> THEN NoSubscription(mass)
                           ELSE [mass EXCEPT !.targets = members, !.pc = "next"]
                /\ mhist' = [mhist EXCEPT !.resolved = TRUE]
        /\ UNCHANGED clientSide

\* deleteClient up to its POST
DeleteNext ==
    /\ mass.op = "delete" /\ mass.pc = "next"
    /\ LET member   == mass.targets[mass.i]
           clientId == getClientIdForProtocol(member.client, member.protocol)
           posted   == validateInboundId(member.inboundId) /\ Trim(clientId) # ""
           h        == [mhist EXCEPT !.attempted = @ \cup {mass.i},
                                     !.delLog = Append(@, [inboundId |-> member.inboundId,
                                                           clientId  |-> clientId,
                                                           posted    |-> posted])]
       IN  IF ~validateInboundId(member.inboundId) \/ Trim(clientId) = ""
           THEN Fail("Validation", h)
           ELSE /\ mass' = [mass EXCEPT !.pc = "delPost"]
                /\ mhist' = [h EXCEPT !.deletes = @ + 1]
    /\ UNCHANGED clientSide

DelPostReply ==
    \E reply \in Outcomes :
        /\ mass.pc = "delPost"
        /\ IF reply # "ok"
           THEN Fail(Message(reply), mhist)
           ELSE mass' = Succeeded(mass, mass.targets[mass.i].inboundId) /\ UNCHANGED mhist
        /\ UNCHANGED clientSide

NextMass ==
    \/ createClientOnAllInbounds \/ ListReply \/ CreateNext \/ AddGetReply \/ AddPostReply
    \/ createClientOnInbounds \/ SubsetNext \/ GetReply
    \/ deleteClientsBySubId \/ SubReply \/ DeleteNext \/ DelPostReply

SpecMass == InitMassSpec /\ [][NextMass]_vars

\* ------------------------------------------ getAllSubscriptions (SpecSubs)
\* The clients of the panel: an email and a subId ("" also stands for an
\* absent subId, both being falsy).
Clients == [email : {"a@x", "b@x"}, subId : {"", "sub-1", "sub-2"}]

\* inbound.settings as GET /list hands it over: an object, the JSON text of
\* one, or text that JSON.parse rejects
Settings ==
    [kind : {"object", "json"}, clients : SeqsUpTo(Clients, MaxClients)]
        \cup {[kind |-> "garbage", clients |-> <<>>]}

\* the k-th inbound of the list: its id, remark and protocol
InboundAt(k, settings) ==
    [ id       |-> k,
      remark   |-> IF k = 1 THEN "first" ELSE "other",
      protocol |-> IF k = 1 THEN "vless" ELSE "trojan",
      settings |-> settings ]

Parseable(inb) == inb.settings.kind # "garbage"

\* the member recorded for a client of an inbound
Entry(client, inb) ==
    [ client          |-> client,
      inboundId       |-> inb.id,
      inboundRemark   |-> inb.remark,
      inboundProtocol |-> inb.protocol ]

HasGroup(groups, subId) == \E g \in 1..Len(groups) : groups[g].subId = subId

\* (mutant) a map that never finds the subscription it already holds
PushClientNoLookup(groups, client, inb) ==
    IF client.subId = "" THEN groups
    ELSE Append(groups, [subId |-> client.subId, clients |-> <<Entry(client, inb)>>])

\* (mutant) members put at the head of their group
PushClientUnshift(groups, client, inb) ==
    IF client.subId = "" THEN groups
    ELSE IF HasGroup(groups, client.subId)
         THEN [g \in 1..Len(groups) |->
                  IF groups[g].subId = client.subId
                  THEN [groups[g] EXCEPT !.clients = <<Entry(client, inb)>> \o @]
                  ELSE groups[g]]
         ELSE Append(groups, [subId |-> client.subId, clients |-> <<Entry(client, inb)>>])

\* the body of the inner loop: subscriptionsMap.get / set, clients.push
PushClient(groups, client, inb) ==
    IF client.subId = "" THEN groups
    ELSE IF HasGroup(groups, client.subId)
         THEN [g \in 1..Len(groups) |->
                  IF groups[g].subId = client.subId
                  THEN [groups[g] EXCEPT !.clients = Append(@, Entry(client, inb))]
                  ELSE groups[g]]
         ELSE Append(groups, [subId |-> client.subId, clients |-> <<Entry(client, inb)>>])

RECURSIVE GroupClients(_, _, _, _)
\* the inner loop over the clients of one inbound, from the j-th on
GroupClients(groups, inb, clients, j) ==
    IF j > Len(clients) THEN groups
    ELSE GroupClients(PushClient(groups, clients[j], inb), inb, clients, j + 1)

RECURSIVE GroupInbounds(_, _, _)
\* (mutant) the scan ends at the first inbound whose settings do not parse
GroupInboundsBreak(groups, inbs, k) ==
    IF k > Len(inbs) THEN groups
    ELSE IF ~Parseable(inbs[k]) THEN groups
    ELSE GroupInbounds(GroupClients(groups, inbs[k], inbs[k].settings.clients, 1), inbs, k + 1)

\* the outer loop, from the k-th inbound on; an inbound whose settings do not
\* parse is skipped
GroupInbounds(groups, inbs, k) ==
    IF k > Len(inbs) THEN groups
    ELSE IF ~Parseable(inbs[k]) THEN GroupInbounds(groups, inbs, k + 1)
    ELSE GroupInbounds(GroupClients(groups, inbs[k], inbs[k].settings.clients, 1), inbs, k + 1)

\* Array.from(subscriptionsMap.values())
getAllSubscriptions(inbs) == GroupInbounds(<<>>, inbs, 1)

InitSubs ==
    /\ now = StartTime
    /\ InitCB
    /\ InitCBHist
    /\ rMax = MaxRetries
    /\ InitRetry
    /\ InitSession
    /\ InitRequest
    /\ InitMass
    /\ \E l \in SeqsUpTo(Settings, MaxListed) :
           listed = [k \in 1..Len(l) |-> InboundAt(k, l[k])]
    /\ subscriptions = NotComputed
    /\ flowArgs = NoFlowArgs
    /\ flow = NotComputed
    /\ createArgs = NotComputed
    /\ created = NotComputed
    /\ adding = NoAdd

GetAllSubscriptions ==
    /\ ~subscriptions.done
    /\ subscriptions' = [done |-> TRUE, value |-> getAllSubscriptions(listed)]
    /\ UNCHANGED <<now, cbVars, cbHist, retryVars, sessVars, reqVars, massVars,
                   listed, flowArgs, flow, createArgs, created, adding>>

NextSubs == GetAllSubscriptions

SpecSubs == InitSubs /\ [][NextSubs]_vars

\* -------------------------------------------- determineVlessFlow (SpecFlow)
InitFlow ==
    /\ now = StartTime
    /\ InitCB
    /\ InitCBHist
    /\ rMax = MaxRetries
    /\ InitRetry
    /\ InitSession
    /\ InitRequest
    /\ InitMass
    /\ listed = <<>>
    /\ subscriptions = NotComputed
    /\ flowArgs \in FlowArgs
    /\ flow = NotComputed
    /\ createArgs = NotComputed
    /\ created = NotComputed
    /\ adding = NoAdd

DetermineVlessFlow ==
    /\ ~flow.done
    /\ flow' = [done |-> TRUE, value |-> determineVlessFlow(flowArgs)]
    /\ UNCHANGED <<now, cbVars, cbHist, retryVars, sessVars, reqVars, massVars,
                   listed, subscriptions, flowArgs, createArgs, created, adding>>

NextFlow == DetermineVlessFlow

SpecFlow == InitFlow /\ [][NextFlow]_vars

\* --------------------------------------- createClientForProtocol (SpecCreate)
\* the protocol tags, in two spellings, and two that are not of the four
Protocols ==
    {"vmess", "VMess", "vless", "VLESS", "trojan", "Trojan", "shadowsocks", "Shadowsocks",
     "http", "socks"}

CreateInbounds ==
    {inb \in [protocol : Protocols, stream : BOOLEAN, security : {"undefined", "XTLS", "none"},
              network : {"undefined", "tcp"}] :
        /\ ~inb.stream => inb.security = "undefined" /\ inb.network = "undefined"
        /\ inb.stream => inb.security # "undefined" /\ inb.network # "undefined"}

\* requests that pass validateMassClientRequest: every accepted form of the
\* three limits, without and with the optional settings
CreateLimits ==
    [subId : {"sub-1"},
     limitIp : {[kind |-> "undefined", n |-> 0], [kind |-> "unlimited", n |-> 0],
                [kind |-> "number", n |-> 0], [kind |-> "number", n |-> 3]},
     traffic : {NoTraffic, [NoTraffic EXCEPT !.kind = "unlimited"],
                TrafficConfig(2, "GB", FALSE), TrafficConfig(3, "MB", TRUE),
                TrafficConfig(1, "TB", FALSE)},
     expiryDays : {NoDays, [kind |-> "unlimited", n |-> 0],
                   [kind |-> "number", n |-> 0], [kind |-> "number", n |-> 2]}]

CreateOptions ==
    [enable : {FALSE}, reset : {1}, vmessAlterId : {4}, vmessSecurity : {"aes-128-gcm"},
     vlessFlow : {"", "xtls-rprx-direct"}, trojanPassword : {"pw-1"},
     ssMethod : {"chacha20-poly1305"}, ssPassword : {"pw-2"}]

CreateRequests == CreateLimits \cup {l @@ o : l \in CreateLimits, o \in CreateOptions}

InitCreate ==
    /\ now = StartTime
    /\ InitCB
    /\ InitCBHist
    /\ rMax = MaxRetries
    /\ InitRetry
    /\ InitSession
    /\ InitRequest
    /\ InitMass
    /\ listed = <<>>
    /\ subscriptions = NotComputed
    /\ flowArgs = NoFlowArgs
    /\ flow = NotComputed
    /\ \E inb \in CreateInbounds, req \in CreateRequests, rnd \in Draws :
           createArgs = [done |-> TRUE,
                         value |-> [inbound |-> inb, request |-> req, rnd |-> rnd]]
    /\ created = NotComputed
    /\ adding = NoAdd

CreateClientForProtocol ==
    /\ ~created.done
    /\ validateMassClientRequest(createArgs.value.request)
    /\ created' = [done |-> TRUE,
                   value |-> createClientForProtocol(createArgs.value.inbound,
                                                     createArgs.value.request,
                                                     createArgs.value.rnd)]
    /\ UNCHANGED <<now, cbVars, cbHist, retryVars, sessVars, reqVars, massVars,
                   listed, subscriptions, flowArgs, flow, createArgs, adding>>

NextCreate == CreateClientForProtocol

SpecCreate == InitCreate /\ [][NextCreate]_vars

\* ------------------------------------------------------ addClient (SpecAdd)
\* a client as the callers of addClient build it
ClientOf(id) ==
    [ id |-> id, enable |-> "boolean", limitIp |-> 2, totalGB |-> 0, expiryTime |-> 0 ]

\* the clients the panel may hold for the inbound
PanelClients == {ClientOf("c-1"), ClientOf("c-2")}

\* the clients given to addClient; enable is modelled by its typeof
NewClients ==
    { ClientOf("c-3"), ClientOf(" "),
      [ClientOf("c-3") EXCEPT !.enable = "string"],
      [ClientOf("c-3") EXCEPT !.limitIp = -1],
      [ClientOf("c-3") EXCEPT !.totalGB = -1],
      [ClientOf("c-3") EXCEPT !.expiryTime = -1] }

\* inbound.settings of GET /get/:id: a structure with clients, one without a
\* clients property, serialized text, or nothing
PanelSettings ==
    [kind : {"object", "json"}, clients : SeqsUpTo(PanelClients, MaxClients)]
        \cup {[kind |-> "noclients", clients |-> <<>>], [kind |-> "none", clients |-> <<>>]}

validateClientData(client) ==
    /\ Trim(client.id) # ""
    /\ client.enable = "boolean"
    /\ client.limitIp >= 0
    /\ client.totalGB >= 0
    /\ client.expiryTime >= 0

\* (mutant) a payload holding the new client alone
addClientSettingsDelta(settings, client) == <<client>>

\* settings.clients of the payload: [...(currentSettings.clients || [])] and
\* the push; text has no clients property
addClientSettings(settings, client) ==
    IF settings.kind = "object" THEN Append(settings.clients, client) ELSE <<client>>

InitAdd ==
    /\ now = StartTime
    /\ InitCB
    /\ InitCBHist
    /\ rMax = MaxRetries
    /\ InitRetry
    /\ InitSession
    /\ InitRequest
    /\ InitMass
    /\ listed = <<>>
    /\ subscriptions = NotComputed
    /\ flowArgs = NoFlowArgs
    /\ flow = NotComputed
    /\ createArgs = NotComputed
    /\ created = NotComputed
    /\ \E settings \in PanelSettings : adding = [NoAdd EXCEPT !.remote = settings]

addSide == <<now, cbVars, cbHist, retryVars, sessVars, reqVars, massVars,
             listed, subscriptions, flowArgs, flow, createArgs, created>>

\* addClient(inboundId, client) up to its GET
AddClient ==
    \E id \in {0, 1}, client \in NewClients :
        /\ adding.pc = "idle"
        /\ IF ~validateInboundId(id) \/ ~validateClientData(client)
           THEN adding' = [adding EXCEPT !.pc = "raised", !.inboundId = id, !.client = client,
                                         !.thrown = "Validation"]
           ELSE adding' = [adding EXCEPT !.pc = "get", !.inboundId = id, !.client = client]
        /\ UNCHANGED addSide

\* GET /get/:id is answered: the payload is built from the inbound received
\* and POST /addClient is issued
AddClientGetReply ==
    \E reply \in Outcomes :
        /\ adding.pc = "get"
        /\ IF reply # "ok"
           THEN adding' = [adding EXCEPT !.pc = "raised", !.thrown = Message(reply)]
           ELSE adding' = [adding EXCEPT
                              !.pc = "post",
                              !.fetched = adding.remote,
                              !.gets = @ + 1,
                              !.sent = TRUE,
                              !.posted = [id |-> adding.inboundId,
                                          clients |-> addClientSettings(adding.remote,
                                                                        adding.client)]]
        /\ UNCHANGED addSide

\* somebody else adds a client to the inbound on the panel, or removes one,
\* while the call is in flight
PanelChange ==
    /\ adding.pc \in {"get", "post"}
    /\ adding.remote.kind \in {"object", "json"}
    /\ \/ \E c \in PanelClients :
              /\ Len(adding.remote.clients) < MaxClients
              /\ adding' = [adding EXCEPT !.remote.clients = Append(@, c)]
       \/ /\ adding.remote.clients # <<>>
          /\ adding' = [adding EXCEPT !.remote.clients = Tail(@)]
    /\ UNCHANGED addSide

\* POST /addClient is answered
AddClientPostReply ==
    \E reply \in Outcomes :
        /\ adding.pc = "post"
        /\ IF reply = "ok"
           THEN adding' = [adding EXCEPT !.pc = "done"]
           ELSE adding' = [adding EXCEPT !.pc = "raised", !.thrown = Message(reply)]
        /\ UNCHANGED addSide

NextAdd == AddClient \/ AddClientGetReply \/ PanelChange \/ AddClientPostReply

SpecAdd == InitAdd /\ [][NextAdd]_vars

\* ------------------------------------ the session on its own (SpecSession)
\* Everything that writes the session, in any interleaving: login() called by
\* the user, by ensureAuthenticated or after a 401, its answer, the
\* invalidation on a 401, and logout().  call[c].pc = "login" is a login() of
\* caller c in flight.
InitSessionSpec ==
    /\ now = StartTime
    /\ InitCB
    /\ InitCBHist
    /\ rMax = MaxRetries
    /\ InitRetry
    /\ InitSession
    /\ InitRequest
    /\ InitMass
    /\ InitFn

SessLogin ==
    \E c \in Callers :
        /\ call[c].pc = "none"
        /\ call' = [call EXCEPT ![c].pc = "login"]
        /\ UNCHANGED <<now, cbVars, cbHist, retryVars, sessVars, hist, massVars, fnVars>>

\* (mutant) an ensureAuthenticated that waits while another login() is in flight
EnsureAuthenticatedShared(c) ==
    /\ call[c].pc = "none"
    /\ \A d \in Callers : call[d].pc # "login"
    /\ IF NeedLogin
       THEN call' = [call EXCEPT ![c].pc = "login"]
       ELSE UNCHANGED call
    /\ UNCHANGED <<now, cbVars, cbHist, retryVars, sessVars, hist, massVars, fnVars>>

\* a privileged call of c reaches ensureAuthenticated: login() begins when the
\* session is unauthenticated, without a cookie or older than an hour
EnsureAuthenticated(c) ==
    /\ call[c].pc = "none"
    /\ IF NeedLogin
       THEN call' = [call EXCEPT ![c].pc = "login"]
       ELSE UNCHANGED call
    /\ UNCHANGED <<now, cbVars, cbHist, retryVars, sessVars, hist, massVars, fnVars>>

SessEnsure == \E c \in Callers : EnsureAuthenticated(c)

SessLoginReply ==
    \E c \in Callers, reply \in LoginReplies :
        /\ call[c].pc = "login"
        /\ IF reply > 0 THEN LoginSucceeded(reply) ELSE LoginFailed
        /\ call' = [call EXCEPT ![c].pc = "none"]
        /\ hist' = [hist EXCEPT ![c].loginReply = reply,
                                ![c].loginError = IF reply > 0 THEN NoError
                                                  ELSE LoginError(reply),
                                ![c].loginValid = isAuthenticated /\ sessionCookie # 0]
        /\ UNCHANGED <<now, cbVars, cbHist, retryVars, massVars, fnVars>>

\* a privileged request of c is answered 401: the session is cleared and the
\* re-login begins
SessInvalidate ==
    \E c \in Callers :
        /\ call[c].pc = "none"
        /\ isAuthenticated
        /\ Invalidate
        /\ call' = [call EXCEPT ![c].pc = "login"]
        /\ UNCHANGED <<now, cbVars, cbHist, retryVars, hist, massVars, fnVars>>

SessTick == Tick /\ UNCHANGED <<cbVars, cbHist, retryVars, sessVars, reqVars, massVars, fnVars>>

NextSession == SessLogin \/ SessLoginReply \/ SessInvalidate \/ Logout \/ SessTick

SpecSession == InitSessionSpec /\ [][NextSession]_vars

\* the session under privileged calls alone: every login() is one that
\* ensureAuthenticated or the 401 branch of makeHttpRequest began
NextEnsure == SessEnsure \/ SessLoginReply \/ SessInvalidate \/ SessTick

SpecEnsure == InitSessionSpec /\ [][NextEnsure]_vars

\* C1: once threshold consecutive invocations of the wrapped operation have
\* failed, every call made before (time of the last counted failure + timeout)
\* is rejected without invoking the operation.  Stated for calls that never
\* overlap, the reading most favourable to the code.
C1_FailFast == (~overlap /\ lastCall.expected) => lastCall.rejected

\* C2: with maxRetries = n, a call whose fn failed every time with a retryable
\* failure has invoked fn exactly n+1 times when it raises; a call that returns
\* has invoked fn exactly k times, k <= n+1 being the first invocation that
\* succeeded (the k-1 before it failed, all with a retryable failure).
C2_RetryCount ==
    \A c \in Callers :
        /\ (rpc[c] = "raised" /\ nTransient[c] = nFail[c]) => invocations[c] = rMax + 1
        /\ rpc[c] = "returned" =>
              /\ invocations[c] = nFail[c] + 1
              /\ nTransient[c] = nFail[c]
              /\ invocations[c] <= rMax + 1

C2_Witness ==
    /\ rMax = MaxRetries
    /\ rpc[1] = "raised" /\ nTransient[1] = nFail[1] /\ invocations[1] = MaxRetries + 1
    /\ rpc[2] = "returned" /\ invocations[2] = MaxRetries + 1

\* C3: a failure the default predicate does not accept (anything but a Network
\* error whose status is neither 401 nor 403) is raised at once: fn is not invoked
\* again in that call, whatever maxRetries is; when it is the first failure of
\* the call, fn has been invoked exactly once.
C3_NonTransientNotRetried ==
    \A c \in Callers :
        (lastError[c] # NoError /\ ~TransientFailure(lastError[c])) =>
            /\ rpc[c] = "raised"
            /\ raised[c] = lastError[c]
            /\ invocations[c] = nTransient[c] + 1
            /\ (nFail[c] = 1 => invocations[c] = 1)

C3_Witness ==
    /\ rMax = MaxRetries
    /\ rpc[1] = "raised" /\ raised[1] = AuthenticationError /\ invocations[1] = 1
    /\ rpc[2] = "raised" /\ raised[2] = CircuitOpenError /\ invocations[2] = 1

Done(c) == rpc[c] \in {"returned", "raised"}

\* C4 as stated: a call issued more than one hour after the last successful
\* login makes exactly one login.
C4_ExactlyOneLogin ==
    \A c \in Users : (Done(c) /\ hist[c].issue = "stale") => hist[c].logins = 1

\* C4 as amended: a call issued more than one hour after the last successful
\* login and admitted by the breaker begins with a login; its request is sent
\* only after that login succeeded, exactly one login having been made until
\* then; the call makes at least one login.  A call issued with a session at
\* most one hour old and authenticated sends its request without any login.
C4_LoginBeforeRequest ==
    \A c \in Users :
        /\ hist[c].issue = "stale" =>
              /\ hist[c].logins >= 1
              /\ hist[c].preSend \in {-1, 1}
              /\ (hist[c].preSend = 1 => hist[c].granted # 0)
              /\ (call[c].pc = "login1" /\ attempt[c] = 0 => hist[c].requests = 0)
        /\ hist[c].issue = "fresh" => hist[c].preSend = 0

C4_Witness ==
    \E c \in Users :
        /\ Done(c) /\ hist[c].issue = "stale" /\ hist[c].preSend = 1
        /\ hist[c].logins = 2 /\ lastLoginTime > StartTime

C6_Second401Terminal ==
    \A c \in Users :
        /\ hist[c].replayStatus = 401 =>
              /\ rpc[c] = "raised" /\ raised[c] = AuthenticationError
              /\ call[c].pc = "none"
              /\ hist[c].aRelogins = 1 /\ hist[c].aReplays = 1
        /\ hist[c].only401 =>
              /\ attempt[c] = 0
              /\ hist[c].requests <= 2 /\ hist[c].logins <= 2

C6_Witness ==
    \E c \in Users :
        /\ hist[c].only401 /\ hist[c].replayStatus = 401
        /\ hist[c].requests = 2 /\ hist[c].logins = 2 /\ attempt[c] = 0 /\ rMax > 0

\* C7: when a request is answered 401, the re-login succeeds and the replay is
\* answered with an ok status, the call returns the replay's response with no
\* error; the replay was sent once, with the cookie the re-login received; and
\* the session is authenticated with that cookie (as long as nothing else has
\* changed the session since).
C7_TransparentReauth ==
    \A c \in Users :
        /\ Ok(hist[c].replayStatus) =>
              /\ rpc[c] = "returned" /\ raised[c] = NoError
              /\ call[c].result = "replay"
        /\ call[c].result = "replay" =>
              /\ hist[c].aReplays = 1 /\ hist[c].aRelogins = 1
              /\ hist[c].granted # 0
              /\ call[c].replayCookie = hist[c].granted
              /\ (hist[c].alone => isAuthenticated /\ sessionCookie = hist[c].granted)

C7_Witness ==
    \E c \in Users :
        /\ rpc[c] = "returned" /\ call[c].result = "replay" /\ hist[c].alone
        /\ call[c].sentCookie # 0 /\ call[c].replayCookie # call[c].sentCookie
        /\ isAuthenticated

Count(ok) == Cardinality({k \in 1..Len(mass.results) : mass.results[k].success = ok})

\* C8: a report of a mass create (all inbounds, given inbounds) or mass delete
\* over N targets of which f failed has N entries, f of them unsuccessful and
\* each of those with an error message, failed = f and success = N - f.
C8_Accounting ==
    mass.pc = "report" =>
        LET N == Len(mass.targets)
            f == Cardinality(mhist.failedAt)
        IN  /\ Len(mass.results) = N
            /\ mass.failedCount = f /\ Count(FALSE) = f
            /\ mass.successCount = N - f /\ Count(TRUE) = N - f
            /\ \A k \in 1..N : ~mass.results[k].success => mass.results[k].error # ""

C8_Witness ==
    /\ mass.op = "subset" /\ mass.pc = "report"
    /\ Len(mass.targets) = MaxTargets
    /\ mass.failedCount = 1 /\ mass.successCount = MaxTargets - 1

\* C9: every client built by one mass create carries the same subscription
\* id: the one supplied in the request, or else the single one generated before
\* the first target was processed.
C9_OneSubId ==
    /\ mhist.generated <= 1
    /\ mhist.generated = 1 => mhist.supplied = ""
    /\ mhist.attempted # {} /\ mass.op \in {"all", "subset"} =>
           /\ mass.request.subId # ""
           /\ mhist.supplied = "" => mhist.generated = 1
    /\ \A k \in 1..Len(mhist.built) :
           /\ mhist.built[k] = mass.request.subId
           /\ mhist.supplied # "" => mhist.built[k] = mhist.supplied
           /\ mhist.supplied = "" => mhist.built[k] \in Uuids

C9_Witness ==
    /\ mass.op = "all" /\ mass.pc = "report" /\ mhist.supplied = ""
    /\ Len(mhist.built) = MaxTargets /\ mass.successCount = MaxTargets

\* C10: once the targets of a mass operation are known the operation never
\* raises: a failure is recorded against its own target, every target is
\* attempted, and the operation ends with a report.
C10_NoAbort ==
    /\ mhist.resolved => mass.pc # "raised"
    /\ mhist.resolved =>
           /\ mhist.failedAt \subseteq mhist.attempted
           /\ \A k \in 1..Len(mass.results) : mass.results[k].success = (k \notin mhist.failedAt)
           /\ mass.pc # "report" => mhist.attempted \subseteq 1..mass.i
    /\ mass.pc = "report" => mhist.attempted = 1..Len(mass.targets)

C10_Witness ==
    /\ mass.op = "delete" /\ mass.pc = "report"
    /\ Len(mass.targets) = MaxTargets
    /\ mhist.failedAt = {1} /\ mass.results[MaxTargets].success

\* every (inbound, client) position of the list
Positions == {p \in (1..Len(listed)) \X (1..MaxClients) :
                 Parseable(listed[p[1]]) /\ p[2] <= Len(listed[p[1]].settings.clients)}

ClientAt(p) == listed[p[1]].settings.clients[p[2]]

TaggedIds == {ClientAt(p).subId : p \in Positions} \ {""}

\* C11: over inbounds with parseable settings holding k distinct non-empty
\* subscription ids, getAllSubscriptions returns k groups with pairwise
\* distinct ids; a group holds, as often as the list does, every client tagged
\* with its id together with the id, remark and protocol of the inbound it is
\* in, and nothing else; a client without a subscription id is in no group.
C11_Grouping ==
    (subscriptions.done /\ \A k \in 1..Len(listed) : Parseable(listed[k])) =>
        LET groups == subscriptions.value
        IN  /\ Len(groups) = Cardinality(TaggedIds)
            /\ {groups[g].subId : g \in 1..Len(groups)} = TaggedIds
            /\ \A g \in 1..Len(groups) :
                   LET members == groups[g].clients
                       tagged  == {p \in Positions : ClientAt(p).subId = groups[g].subId}
                   IN  /\ Len(members) = Cardinality(tagged)
                       /\ \A m \in 1..Len(members) : members[m].client.subId = groups[g].subId
                       /\ \A p \in tagged :
                              LET e == Entry(ClientAt(p), listed[p[1]])
                              IN  Cardinality({m \in 1..Len(members) : members[m] = e})
                                      = Cardinality({q \in tagged :
                                            Entry(ClientAt(q), listed[q[1]]) = e})

C11_Witness ==
    /\ subscriptions.done
    /\ Len(listed) = 2 /\ \A k \in 1..2 : Parseable(listed[k])
    /\ Len(subscriptions.value) = 2
    /\ Len(subscriptions.value[1].clients) = 2
    /\ subscriptions.value[1].clients[1].inboundId # subscriptions.value[1].clients[2].inboundId
    /\ \E p \in Positions : ClientAt(p).subId = ""

\* C12: deleting a subscription that has no members (none is found under the
\* id) returns {success: 0, failed: 0, results: []}, sends no delete call and
\* raises nothing.
C12_EmptyDelete ==
    (mass.op = "delete" /\ mhist.resolved /\ mass.targets = <<>>) =>
        /\ mass.pc = "report"
        /\ mass.results = <<>> /\ mass.successCount = 0 /\ mass.failedCount = 0
        /\ mhist.deletes = 0 /\ mhist.attempted = {}

C12_Witness ==
    /\ mass.op = "delete" /\ mass.pc = "report" /\ mhist.resolved
    /\ mass.targets = <<>> /\ mass.subId = "sub-1"

\* the spellings of xtls
XtlsSpellings == {"xtls", "XTLS", "Xtls"}

\* C13: an explicit vless flow of the request, the empty string included, is
\* returned as it is whatever the stream settings; without one the result is
\* "xtls-rprx-vision" exactly when the stream security is xtls in any case, and
\* "" otherwise, missing stream settings included.
C13_FlowDerivation ==
    flow.done =>
        IF flowArgs.flow # "undefined" THEN flow.value = flowArgs.flow
        ELSE IF flowArgs.stream /\ flowArgs.security \in XtlsSpellings
             THEN flow.value = "xtls-rprx-vision"
             ELSE flow.value = ""

C13_Witness ==
    /\ flow.done /\ flow.value = "xtls-rprx-vision"
    /\ flowArgs.flow = "undefined" /\ flowArgs.security = "XTLS" /\ flowArgs.network = "ws"

\* C14: when the operation invoked through call() succeeds, the failure
\* counter is 0 right afterwards, whatever it was before.
C14_SuccessResets == lastDone.outcome = "success" => lastDone.after = 0

C14_Witness ==
    /\ lastDone.outcome = "success" /\ lastDone.before = threshold - 1 /\ failures = 0

\* C15: when the operation invoked through call() fails, the failure counter
\* goes up by exactly one; if it has then reached threshold the breaker is open,
\* its retry-permitted time being the time of that failure + timeout; and
\* call() throws the operation's own failure, not the service-unavailable error.
C15_FailureCounts ==
    lastDone.outcome = "failure" =>
        /\ lastDone.after = lastDone.before + 1
        /\ lastDone.after >= threshold =>
               /\ lastDone.next = lastDone.at + timeout
               /\ lastDone.at < lastDone.next
        /\ lastDone.thrown = lastDone.fnError /\ lastDone.thrown # CircuitOpenError

C15_Witness ==
    /\ lastDone.outcome = "failure" /\ lastDone.after = threshold
    /\ isOpen /\ nextAttempt = lastDone.at + timeout /\ lastDone.at > StartTime

\* C16: once the timeout has elapsed on an open breaker the next call is let
\* through; if that probe succeeds the breaker is closed; if it fails the breaker
\* is open again at once, its timeout window restarted from that failure.
\* Stated for calls that never overlap.
C16_HalfOpenProbe ==
    /\ lastCall.halfOpen => ~lastCall.rejected
    /\ (lastDone.probe /\ lastDone.solo /\ lastDone.outcome = "success") => lastDone.after = 0
    /\ (lastDone.probe /\ lastDone.solo /\ lastDone.outcome = "failure") =>
           /\ lastDone.after >= threshold
           /\ lastDone.next = lastDone.at + timeout

\* C17: in every state of a client, whatever the interleaving of logins
\* (accepted or failed), logouts and 401 invalidations, an authentication flag
\* that is true comes with a session cookie that is not empty.
C17_SessionInvariant == isAuthenticated => sessionCookie # 0

C17_Witness ==
    /\ isAuthenticated /\ sessionCookie # 0 /\ lastLoginTime > StartTime
    /\ call[1].pc = "login" /\ call[2].pc = "login"

\* the attempt of c that has just ended had its request answered 401
Ended401(c) ==
    hist[c].aRelogins >= 1 /\ call[c].pc = "none" /\ raised[c] # CircuitOpenError

\* C18: an attempt whose request was answered 401 is not counted as a failure
\* by the breaker and does not use up one of the retry layer's attempts,
\* however the re-login and the replay ended.
C18_Bypass401 ==
    \A c \in Users : Ended401(c) => ~hist[c].aCounted /\ rpc[c] # "delay"

\* C19: once the request has been replayed after a 401, a failure of the
\* replay of any kind ends the call: it is raised, with no retry.
C19_ReplayFailureTerminal ==
    \A c \in Users :
        (Ended401(c) /\ hist[c].aReplays >= 1 /\ ~Ok(hist[c].replayStatus)) =>
            rpc[c] = "raised"

\* C20: whenever a privileged request, first send or replay, is answered 401
\* the session is cleared; a call that ended on a replay answered 401 does not
\* leave the session authenticated.
C20_InvalidateOn401 ==
    \A c \in Users :
        /\ (call[c].pc = "login2" /\ hist[c].alone) => ~isAuthenticated /\ sessionCookie = 0
        /\ (hist[c].replayStatus = 401 /\ hist[c].alone) =>
               ~isAuthenticated /\ sessionCookie = 0

\* C21: a login() answered with no cookie throws an Authentication error; a
\* login() that failed (no cookie, or no answer) leaves the flag unset and the
\* cookie cleared, whatever the session was before; a login() that succeeded
\* leaves the flag set, the cookie received and the time of the login.
C21_LoginContract ==
    [][\A c \in Callers :
          (call[c].pc = "login" /\ call'[c].pc = "none") =>
              LET h == hist'[c] IN
              IF h.loginReply > 0
              THEN /\ isAuthenticated' /\ sessionCookie' = h.loginReply
                   /\ lastLoginTime' = now' /\ h.loginError = NoError
              ELSE /\ ~isAuthenticated' /\ sessionCookie' = 0
                   /\ h.loginError # NoError
                   /\ h.loginReply = 0 => h.loginError = AuthenticationError]_vars

\* a login() failed although the session was valid, and one succeeded later
\* than the start
C21_Witness ==
    /\ hist[1].loginReply = 0 /\ hist[1].loginValid
    /\ hist[1].loginError = AuthenticationError
    /\ hist[2].loginReply > 0 /\ lastLoginTime > StartTime
    /\ isAuthenticated /\ sessionCookie = hist[2].loginReply

\* the session as logout() leaves it
LoggedOut == ~isAuthenticated /\ sessionCookie = 0 /\ lastLoginTime = 0

\* C22: logout() can be called in any state and never raises; it leaves the
\* session unauthenticated, with no cookie and no last-login time; called on a
\* session that a logout() has just left, it changes nothing; it never changes
\* the breaker's counter.
C22_LogoutIdempotent ==
    /\ [](ENABLED Logout)
    /\ [][Logout =>
            /\ LoggedOut'
            /\ failures' = failures /\ nextAttempt' = nextAttempt
            /\ LoggedOut => sessVars' = sessVars]_vars

\* logout() has cleared a session that a login had set up, the breaker having
\* counted a failure
C22_Witness ==
    /\ LoggedOut /\ failures > 0
    /\ hist[1].logins >= 1 /\ hist[1].granted > 0 /\ ~hist[1].alone

\* C23: when resilientApiCall gives up, what it raises is the failure of the
\* last invocation of fn, as fn threw it (same class, same status code): no
\* wrapper, and not the failure of an earlier attempt.
C23_LastFailureUnchanged ==
    \A c \in Callers :
        rpc[c] = "raised" =>
            /\ raised[c] = lastError[c]
            /\ raised[c] \in FnErrors
            /\ nFail[c] = invocations[c]

\* both ways of giving up: retries exhausted on a transient failure, and a
\* failure that is not retryable after transient ones
C23_Witness ==
    /\ rMax = MaxRetries
    /\ rpc[1] = "raised" /\ attempt[1] = rMax /\ raised[1] = NetworkError(500)
    /\ nTransient[1] = rMax + 1
    /\ rpc[2] = "raised" /\ attempt[2] = 1 /\ raised[2] = AuthenticationError
    /\ nTransient[2] = 1

\* a limit as the contract accepts it: absent, 'unlimited' or an integer >= 0
LimitAccepted(x) == x.kind \in {"undefined", "unlimited"} \/ (x.kind = "number" /\ x.n >= 0)

\* a request the contract rejects: a bad IP limit or expiry, a numeric traffic
\* with size <= 0 or a unit outside MB, GB, TB
Rejected(req) ==
    \/ ~LimitAccepted(req.limitIp)
    \/ ~LimitAccepted(req.expiryDays)
    \/ req.traffic.kind = "object" /\ (req.traffic.size <= 0 \/ req.traffic.unit \notin {"MB", "GB", "TB"})

\* C24: a mass create given a rejected request (the subset variant: or an empty
\* list of ids) throws a ValidationError before any network call: no list, get
\* or add is sent, no subscription id is generated, no client is built, and the
\* session and the breaker are as before.
C24_ValidationFirst ==
    (/\ mass.op \in {"all", "subset"}
     /\ Rejected(mass.request) \/ (mass.op = "subset" /\ mass.inboundIds = <<>>)) =>
        /\ mass.pc = "raised" /\ mhist.thrown = "Validation"
        /\ ~mhist.sent /\ mhist.attempted = {} /\ ~mhist.resolved
        /\ mhist.generated = 0 /\ mhist.built = <<>> /\ mass.results = <<>>
        /\ failures = 0 /\ ~isAuthenticated /\ sessionCookie = 0 /\ lastLoginTime = 0

\* the subset variant has rejected a request whose only fault is its expiry
C24_Witness ==
    /\ mass.op = "subset" /\ mass.pc = "raised" /\ mass.inboundIds # <<>>
    /\ LimitAccepted(mass.request.limitIp) /\ mass.request.traffic.kind = "undefined"
    /\ mass.request.expiryDays.kind = "fraction"

\* the delete key the contract names for a member
DeleteKey(member) ==
    IF member.protocol \in {"trojan", "TROJAN", "Trojan"} THEN member.client.password
    ELSE IF member.protocol \in {"shadowsocks", "Shadowsocks", "SHADOWSOCKS"}
         THEN member.client.email
    ELSE member.client.id

\* C25: deleteClientsBySubId calls deleteClient exactly once for each member
\* it has processed, in order, with the member's own inbound id and with the
\* key of the inbound's protocol: the id for vmess and vless, the password for
\* trojan, the email for shadowsocks, in any letter case, the id for any other
\* protocol; each call sends at most one delete request.
C25_DeleteKey ==
    mass.op = "delete" =>
        /\ Len(mhist.delLog) = Cardinality(mhist.attempted)
        /\ mhist.attempted = 1..Len(mhist.delLog)
        /\ mhist.deletes = Cardinality({k \in 1..Len(mhist.delLog) : mhist.delLog[k].posted})
        /\ \A k \in 1..Len(mhist.delLog) :
              /\ mhist.delLog[k].inboundId = mass.targets[k].inboundId
              /\ mhist.delLog[k].clientId = DeleteKey(mass.targets[k])
        /\ mass.pc = "report" => Len(mhist.delLog) = Len(mass.targets)

\* a trojan member in capitals and a shadowsocks member have been deleted
C25_Witness ==
    /\ mass.op = "delete" /\ mass.pc = "report" /\ Len(mass.targets) = 2
    /\ mass.targets[1].protocol = "TROJAN" /\ mass.targets[2].protocol = "Shadowsocks"
    /\ mhist.delLog[1].clientId = "pw-1" /\ mhist.delLog[2].clientId = "e-1"
    /\ mhist.deletes = 2 /\ mass.successCount = 2

\* C26: whatever the protocol, a client built from a request whose IP limit,
\* traffic or expiry is 'unlimited' has limitIp = 0, totalGB = 0 or
\* expiryTime = 0 respectively.
C26_UnlimitedIsZero ==
    created.done =>
        LET req == createArgs.value.request IN
        /\ req.limitIp.kind = "unlimited" => created.value.limitIp = 0
        /\ req.traffic.kind = "unlimited" => created.value.totalGB = 0
        /\ req.expiryDays.kind = "unlimited" => created.value.expiryTime = 0

\* a shadowsocks client built from a request with the three sentinels
C26_Witness ==
    /\ created.done /\ createArgs.value.inbound.protocol = "Shadowsocks"
    /\ createArgs.value.request.limitIp.kind = "unlimited"
    /\ createArgs.value.request.traffic.kind = "unlimited"
    /\ createArgs.value.request.expiryDays.kind = "unlimited"
    /\ created.value.limitIp = 0 /\ created.value.totalGB = 0 /\ created.value.expiryTime = 0

\* the fields every client has
BaseFields == {"id", "email", "enable", "limitIp", "totalGB", "expiryTime", "subId", "reset"}

\* the fields the contract adds for a protocol tag
ProtocolFields(protocol) ==
    IF protocol \in {"vmess", "VMess"} THEN {"alterId", "security"}
    ELSE IF protocol \in {"trojan", "Trojan"} THEN {"password"}
    ELSE IF protocol \in {"shadowsocks", "Shadowsocks"} THEN {"method", "password"}
    ELSE {"flow"}

\* C27: the client built for an inbound has the common fields and exactly the
\* fields of the inbound's protocol, in any letter case: alterId (default 0)
\* and security (default "auto") for vmess, flow for vless, password (supplied
\* or else generated) for trojan, method (default "aes-256-gcm") and password
\* for shadowsocks, and flow for every other protocol.
C27_FieldSet ==
    created.done =>
        LET inb    == createArgs.value.inbound
            req    == createArgs.value.request
            rnd    == createArgs.value.rnd
            client == created.value
            plain  == "enable" \notin DOMAIN req
            fields == ProtocolFields(inb.protocol)
        IN  /\ DOMAIN client = BaseFields \cup fields
            /\ "alterId" \in fields =>
                   /\ client.alterId = IF plain THEN 0 ELSE req.vmessAlterId
                   /\ client.security = IF plain THEN "auto" ELSE req.vmessSecurity
            /\ fields = {"password"} =>
                   client.password = IF plain THEN rnd.password ELSE req.trojanPassword
            /\ "method" \in fields =>
                   /\ client.method = IF plain THEN "aes-256-gcm" ELSE req.ssMethod
                   /\ client.password = IF plain THEN rnd.password ELSE req.ssPassword

\* a client built for a protocol that is none of the four
C27_Witness ==
    /\ created.done /\ createArgs.value.inbound.protocol = "socks"
    /\ createArgs.value.inbound.security = "XTLS"
    /\ "vlessFlow" \notin DOMAIN createArgs.value.request
    /\ DOMAIN created.value = BaseFields \cup {"flow"}
    /\ created.value.flow = "xtls-rprx-vision"

\* C28: the clients created by one mass create have pairwise distinct
\* generated emails.
C28_DistinctEmails ==
    mass.op \in {"all", "subset"} => Cardinality(mhist.emails) = mass.successCount

\* a network call of the operation is in flight for the current target
InFlight == mass.pc \in {"get", "addGet", "addPost", "delPost"}

\* C29: a mass operation is sequential: while a call for target i is in
\* flight, every target before i has its outcome in the report and no target
\* after i has been begun; between two targets, and at the end, every target
\* begun has its outcome; the first call (the list) precedes every target.
C29_Sequential ==
    mass.op # "none" =>
        /\ InFlight =>
               /\ mass.i <= Len(mass.targets)
               /\ Len(mass.results) = mass.i - 1
               /\ mhist.attempted = 1..mass.i
        /\ mass.pc = "next" =>
               /\ mass.i <= Len(mass.targets)
               /\ Len(mass.results) = mass.i - 1
               /\ mhist.attempted = 1..(mass.i - 1)
        /\ mass.pc = "report" =>
               /\ Len(mass.results) = Len(mass.targets)
               /\ mhist.attempted = 1..Len(mass.targets)
        /\ mass.pc \in {"list", "sub"} => mass.results = <<>> /\ mhist.attempted = {}

\* the add for the second target is in flight, the first having failed
C29_Witness ==
    /\ mass.op = "all" /\ mass.pc = "addPost" /\ mass.i = 2
    /\ Len(mass.results) = 1 /\ ~mass.results[1].success

\* the id the report names target k by
TargetId(k) ==
    IF mass.op = "subset" THEN mass.inboundIds[k]
    ELSE IF mass.op = "all" THEN mass.targets[k].id
    ELSE mass.targets[k].inboundId

\* C30: entry k of the report is the outcome of the k-th target in iteration
\* order (of the list answer, of the ids supplied, of the members), whatever
\* the mix of successes and failures; an id supplied twice has two entries.
C30_ResultOrder ==
    mass.op # "none" =>
        /\ Len(mass.results) <= Len(mass.targets)
        /\ (mass.op = "subset" /\ mass.pc # "raised") => mass.targets = mass.inboundIds
        /\ \A k \in 1..Len(mass.results) :
              /\ mass.results[k].success = (k \notin mhist.failedAt)
              /\ (mhist.echoed \/ ~mass.results[k].success) =>
                     mass.results[k].inboundId = TargetId(k)

\* the same id supplied twice: the first succeeded, the second failed
C30_Witness ==
    /\ mass.op = "subset" /\ mass.pc = "report" /\ mass.inboundIds = <<1, 1>>
    /\ Len(mass.results) = 2
    /\ mass.results[1].success /\ ~mass.results[2].success
    /\ mass.results[1].inboundId = 1 /\ mass.results[2].inboundId = 1

\* C31: every entry of a mass-create report, of a target that succeeded or
\* failed, in either variant, names the target inbound by its id, its remark
\* and its protocol.
C31_EntryDescribes ==
    mass.op \in {"all", "subset"} =>
        \A k \in 1..Len(mass.results) :
            /\ (mhist.echoed \/ ~mass.results[k].success) =>
                   mass.results[k].inboundId = TargetId(k)
            /\ mass.results[k].inboundRemark \in {inb.remark : inb \in Inbounds}
            /\ mass.results[k].protocol \in {inb.protocol : inb \in Inbounds}
            /\ mass.op = "all" =>
                   /\ mass.results[k].inboundRemark = mass.targets[k].remark
                   /\ mass.results[k].protocol = mass.targets[k].protocol

\* position p comes before position q in the scan
Before(p, q) == p[1] < q[1] \/ (p[1] = q[1] /\ p[2] < q[2])

\* the positions holding a client tagged with the subscription id
Tagged(id) == {p \in Positions : ClientAt(p).subId = id}

\* C32: the groups come in the order in which their subscription id is first
\* met scanning inbounds in list order and clients in settings order; the
\* members of a group come by inbound position and then by client position.
C32_GroupOrder ==
    subscriptions.done =>
        LET groups == subscriptions.value
        IN  /\ \A g, h \in 1..Len(groups) :
                   g < h => \E p \in Tagged(groups[g].subId) :
                                \A q \in Tagged(groups[h].subId) : Before(p, q)
            /\ \A g \in 1..Len(groups) :
                   \A p \in Tagged(groups[g].subId) :
                       LET rank == 1 + Cardinality({q \in Tagged(groups[g].subId) : Before(q, p)})
                       IN  /\ rank <= Len(groups[g].clients)
                           /\ groups[g].clients[rank] = Entry(ClientAt(p), listed[p[1]])

C32_Witness ==
    /\ subscriptions.done
    /\ Len(subscriptions.value) = 2
    /\ subscriptions.value[1].subId = "sub-2"
    /\ subscriptions.value[2].subId = "sub-1"
    /\ Len(subscriptions.value[1].clients) = 2
    /\ subscriptions.value[1].clients[1].inboundId = 1
    /\ subscriptions.value[1].clients[2].inboundId = 2
    /\ Len(subscriptions.value[2].clients) = 2
    /\ subscriptions.value[2].clients[1].inboundId = 1
    /\ subscriptions.value[2].clients[2].inboundId = 2

\* the list without its k-th inbound
Without(inbs, k) == [j \in 1..(Len(inbs) - 1) |-> IF j < k THEN inbs[j] ELSE inbs[j + 1]]

\* the inbound with settings text replaced by the structure it parses to
PreParsed(inb) ==
    IF inb.settings.kind = "json" THEN [inb EXCEPT !.settings.kind = "object"] ELSE inb

\* C33: an inbound whose settings text does not parse is skipped alone: the
\* call returns what the scan of the list without that inbound returns; and
\* settings text that parses yields the groups the pre-parsed settings yield.
C33_SkipUnparsable ==
    subscriptions.done =>
        /\ \A k \in 1..Len(listed) :
               ~Parseable(listed[k]) =>
                   subscriptions.value = getAllSubscriptions(Without(listed, k))
        /\ subscriptions.value =
               getAllSubscriptions([k \in 1..Len(listed) |-> PreParsed(listed[k])])

C33_Witness ==
    /\ subscriptions.done
    /\ Len(listed) = 2
    /\ ~Parseable(listed[1])
    /\ listed[2].settings.kind = "json"
    /\ Len(subscriptions.value) = 2
    /\ subscriptions.value[1].clients[1].inboundId = 2

\* C34: re-logins of concurrent privileged calls are not merged: whenever the
\* session is unauthenticated or stale, a privileged call that reaches
\* ensureAuthenticated begins a login() of its own, whether or not another
\* call's login() is in flight.
C34_NoSingleFlight ==
    \A c \in Callers :
        (call[c].pc = "none" /\ NeedLogin) =>
            ENABLED (EnsureAuthenticated(c) /\ call'[c].pc = "login")

\* a fresh client (no login has been answered with a cookie yet, so none has
\* been invalidated either) with a login() of every caller in flight
C34_Witness ==
    /\ \A c \in Callers : call[c].pc = "login"
    /\ ~isAuthenticated /\ sessionCookie = 0 /\ lastLoginTime = 0

\* C35: a rejection by the open breaker ends the retry sequence of request():
\* the request raises the breaker's service-unavailable error (not its last
\* network failure) and makes no further attempt, so fewer than
\* retryAttempts + 1 of its attempts reach the transport; a request whose
\* first attempt is rejected has made no transport call at all.
C35_RejectionEndsRetries ==
    \A c \in Users :
        hist[c].refused =>
            /\ rpc[c] = "raised"
            /\ raised[c] = CircuitOpenError
            /\ nFail[c] = invocations[c]
            /\ invocations[c] - 1 < rMax + 1
            /\ hist[c].issue = "rejected" =>
                   /\ invocations[c] = 1
                   /\ hist[c].requests = 0
                   /\ hist[c].logins = 0

C35_Witness ==
    \E c \in Users :
        /\ hist[c].refused
        /\ rpc[c] = "raised"
        /\ attempt[c] = 1
        /\ attempt[c] < rMax
        /\ nTransient[c] = 1
        /\ hist[c].requests = 1
        /\ failures = threshold

\* the step ends an attempt of c with the answer to its request or replay
Answered(c) == call[c].pc \in {"send", "replay"} /\ call'[c].pc = "none"

\* C36: only raised failures count for the client's breaker.  A response with
\* an error status is a success for it: the counter is 0 and the breaker is
\* closed after it, and a 5xx is retried while retries remain; the counter
\* grows, by one, only on a transport failure or timeout and on a failed login.
C36_OnlyRaisedCount ==
    [][/\ \A c \in Users :
             (Answered(c) /\ nFail'[c] > nFail[c] /\ lastError'[c].status >= 400) =>
                 /\ failures' = 0
                 /\ ~isOpen'
                 /\ (lastError'[c].status >= 500 /\ attempt[c] < rMax) => rpc'[c] = "delay"
       /\ failures' > failures =>
             /\ failures' = failures + 1
             /\ \E c \in Users :
                    /\ nFail'[c] > nFail[c]
                    /\ \/ Answered(c) /\ lastError'[c] = NetworkError(0)
                       \/ /\ call[c].pc \in {"login1", "login2"}
                          /\ call'[c].pc = "none"
                          /\ lastError'[c] \in {AuthenticationError, NetworkError(0)}]_vars

C36_Witness ==
    \E c \in Users :
        /\ rpc[c] = "delay"
        /\ call[c].pc = "none"
        /\ lastError[c] = NetworkError(500)
        /\ nFail[c] = 2
        /\ ~hist[c].aCounted
        /\ failures = 0
        /\ hist[c].logins = 1

\* C37: a call admitted before the breaker opened still acts on it when it
\* completes, which only overlapping calls can bring about: its success sets
\* the counter to 0, after which any call is passed to the operation although
\* the retry-permitted time has not come; its failure takes the counter above
\* threshold and sets the retry-permitted time to that failure + timeout.
C37_OverlapClosesEarly ==
    /\ lastDone.before >= threshold =>
           /\ ~lastDone.solo
           /\ lastDone.outcome = "success" => lastDone.after = 0
           /\ lastDone.outcome = "failure" =>
                  /\ lastDone.after = lastDone.before + 1
                  /\ lastDone.next = lastDone.at + timeout
    /\ \A c \in Callers :
           (cbpc[c] = "idle" /\ failures < threshold) =>
               ENABLED (CBAdmit(c) /\ cbpc'[c] = "running")

C37_Witness ==
    /\ lastDone.outcome = "success"
    /\ lastDone.before >= threshold
    /\ failures = 0
    /\ now < nextAttempt
    /\ \E c \in Callers : cbpc[c] = "running"

\* C38: in a mass create the client's IP limit is 2 when the request has no
\* limitIp or the number 0, the supplied value when that is a positive integer,
\* and 0 when and only when the request says 'unlimited', which is what
\* createUniversalClient passes when its options have no limitIp; the number 0
\* of a request never reaches the client.
C38_IpLimit ==
    created.done =>
        LET req   == createArgs.value.request
            limit == req.limitIp
        IN  /\ limit.kind = "undefined" => created.value.limitIp = 2
            /\ (limit.kind = "number" /\ limit.n = 0) => created.value.limitIp = 2
            /\ (limit.kind = "number" /\ limit.n > 0) => created.value.limitIp = limit.n
            /\ created.value.limitIp = 0 <=> limit.kind = "unlimited"
            /\ limit.kind = "undefined" =>
                   createClientForProtocol(createArgs.value.inbound,
                                           createUniversalClient(req),
                                           createArgs.value.rnd).limitIp = 0

C38_Witness ==
    /\ created.done
    /\ createArgs.value.request.limitIp = [kind |-> "number", n |-> 0]
    /\ created.value.limitIp = 2

\* C39: a mass create that is given a request without a subscription id and
\* gets past its validation leaves the generated id in that request, also when
\* it raises afterwards, and changes no other field of it; a mass create given
\* the request again finds the id, generates none, and builds its clients with
\* it.  A request that had an id, or that is rejected, is left as it was.
C39_RequestKeepsSubId ==
    mass.op \in {"all", "subset"} =>
        IF mhist.sent \/ mhist.resolved
        THEN /\ mhist.given.subId = "" => mass.request.subId \in Uuids
             /\ mhist.given.subId # "" => mass.request = mhist.given
             /\ [mass.request EXCEPT !.subId = mhist.given.subId] = mhist.given
             /\ validateMassClientRequest(mass.request)
             /\ \A u \in Uuids :
                    /\ WithSubId(mass.request, u) = mass.request
                    /\ \A rnd \in Draws :
                           baseClient(WithSubId(mass.request, u), rnd).subId = mass.request.subId
             /\ \A k \in 1..Len(mhist.built) : mhist.built[k] = mass.request.subId
        ELSE mass.request = mhist.given

C39_Witness ==
    /\ mass.op = "all"
    /\ mass.pc = "raised"
    /\ mhist.sent
    /\ mhist.given.subId = ""
    /\ mass.request.subId \in Uuids
    /\ mass.request.limitIp = mhist.given.limitIp

\* C40: for an inbound whose settings are a structure, addClient fetches the
\* inbound, once, before it posts, and what it posts to the add-client
\* endpoint is the whole client list as fetched followed by the new client;
\* the list posted is the one of the fetch whatever the panel holds by then.
C40_Snapshot ==
    adding.sent =>
        /\ adding.gets = 1
        /\ adding.posted.id = adding.inboundId
        /\ adding.fetched.kind = "object" =>
               /\ Len(adding.posted.clients) = Len(adding.fetched.clients) + 1
               /\ \A k \in 1..Len(adding.fetched.clients) :
                      adding.posted.clients[k] = adding.fetched.clients[k]
               /\ adding.posted.clients[Len(adding.posted.clients)] = adding.client

C40_Witness ==
    /\ adding.pc = "post"
    /\ adding.fetched.kind = "object"
    /\ adding.fetched.clients = <<ClientOf("c-1")>>
    /\ adding.remote.clients = <<ClientOf("c-1"), ClientOf("c-2")>>
    /\ adding.posted.clients = <<ClientOf("c-1"), adding.client>>

====
